---- MODULE Spec2Model ----
(***************************************************************************)
(* Verification model of the fintech-ai-agent repository.                  *)
(*                                                                         *)
(* Part A  the agent framework: the global tool table, the tag-filtered    *)
(*         PythonActionRegistry, the function-calling language's           *)
(*         parse_response and the Agent.run think/act/observe loop.        *)
(* Part B  the LLM client: provider selection, the completion call and     *)
(*         the provider fallback of LLMClient.generate_response.           *)
(* Part C  the progressive selection CLI: one step per input() prompt of   *)
(*         run_progressive_task_selection.                                 *)
(* Part D  the demo trading platform's risk management module: the global  *)
(*         RiskManager, the emergency override and the LegacyRiskSystem.   *)
(* Part E  the demo trading platform's ComplianceManager: the audit trail, *)
(*         the customer records and handle_data_retention.                 *)
(* Part F  the demo trading platform's UserAuthentication: registration,   *)
(*         authentication and change_password over bcrypt hashes.          *)
(* Part G  the demo trading platform's PortfolioManager: portfolio         *)
(*         creation, rebalancing and the migration of legacy portfolios.   *)
(* Part H  the file explorer's list_project_files_recursive: one step per  *)
(*         directory that os.walk yields.                                  *)
(* Part I  the FastAPI application's get_database, called by coroutines    *)
(*         that share one event loop.                                      *)
(* Part J  the MarketDataManager's real-time streams: one thread per       *)
(*         started stream, each running _process_streaming_data.           *)
(*                                                                         *)
(* Python values are modelled as follows.  A str is a TLA+ string.  An     *)
(* Optional list is a record [isNone, items].  A dict with string keys and *)
(* string values is a set of <<key, value>> pairs.  A decoded JSON value   *)
(* is a record [kind, tool, args] in which tool and args are sequences of  *)
(* length 0 (key absent) or 1 (key present).                               *)
(***************************************************************************)
EXTENDS Integers, Sequences, FiniteSets, TLC

VARIABLES
    \* ---- Part A: agent framework ----
    pc,              \* "start", "ready", "loop", "returned", "raised"
    reg_tags,        \* the tags argument the agent's registry was built with
    reg_tool_names,  \* the tool_names argument the registry was built with
    actions,         \* Agent.actions: ActionRegistry.actions, name -> Action
    memory,          \* the Memory of the run: sequence of [type, content]
    max_iterations,  \* the max_iterations argument of run
    iteration,       \* loop bodies entered so far in "for _ in range(...)"
    responses,       \* every model response the run received, in order
    invocation,      \* run's local "invocation": the last parsed response
    executed,        \* actions handed to the environment: [name, at]
    exception,       \* type of the exception that escaped run, "" if none
    \* ---- Part B: LLM client ----
    llm_pc,          \* "start", "idle", "calling", "returned", "raised"
    available,       \* providers with an API key, in get_available_providers order
    default_provider,\* LLMConfig.default_provider
    stack,           \* active generate_response frames, outermost first
    calls,           \* completion calls made by the current request
    llm_result,      \* returned response or raised message of the request
    \* ---- Part C: progressive selection CLI ----
    cli_pc,          \* the prompt the CLI waits at, "start", "returned" or "raised"
    agent_info,      \* the agent_info / utility_info dict handed down the steps
    selected_task,   \* the task chosen so far, "" before Step 4
    cli_choices,     \* per menu, the stripped answer typed there (<<>> if not asked)
    cli_prompts,     \* number of input() calls made
    cli_result,      \* the returned selection result
    \* ---- Part D: risk management ----
    current_positions,        \* RiskManager.current_positions: <<user, symbol>> -> position
    daily_pnl,                \* RiskManager.daily_pnl: user -> profit and loss
    position_limit_overrides, \* RiskManager.position_limit_overrides: user -> limit
    legacy_position_limits,   \* LegacyRiskSystem.legacy_position_limits
    risk_calls,               \* state-changing calls made on the module so far
    fills_checked,            \* every update_position so far followed its passed check
    risk_last,                \* the last call on the module: [op, args, result]
    \* ---- Part E: compliance ----
    audit_trail,      \* ComplianceManager.audit_trail: sequence of audit entries
    customer_records, \* ComplianceManager.customer_records: customer -> record
    today,            \* datetime.now(), in days
    backup_file,      \* the backup file last written: [written, name, content]
    retention_report, \* the dict last returned by handle_data_retention
    \* ---- Part F: authentication ----
    users,            \* UserAuthentication.users: username -> user record
    auth_calls,       \* state-changing calls made on the auth manager so far
    changed_to,       \* user -> new password of the user's last successful change
    auth_last,        \* the last call on the auth manager: [op, args, result]
    \* ---- Part G: portfolio management ----
    client_portfolios, \* PortfolioManager.client_portfolios: id -> portfolio
    portfolio_calls,   \* state-changing calls made on the portfolio module so far
    migration,         \* the last migrate_legacy_portfolios run
    portfolio_last,    \* the last call on the manager: [op, args, result]
    \* ---- Part H: recursive file listing ----
    files_pc,         \* "start", "walking", "returned"
    tree,             \* the files below root_dir, each a sequence of names
    pattern,          \* the pattern argument
    max_depth,        \* the max_depth argument: <<>> for None, else <<n>>
    pending,          \* directories os.walk has still to yield
    matches,          \* the relative paths appended to matches so far
    files_result,     \* the returned list
    \* ---- Part I: the FastAPI application's database connection ----
    DATABASE_CONNECTION, \* the module global: 0 for None, else the connection
    connections_opened,  \* sqlite3.connect calls that returned a connection
    running,             \* the handler that holds the event loop, 0 if none
    handler,             \* per task, the coroutine it runs ("" before it starts)
    task_pc,             \* per task, where its coroutine stands
    task_db,             \* per task, what its get_database() returned, 0 if nothing yet
    \* ---- Part J: market data streaming ----
    price_history,    \* MarketDataManager.price_history
    volume_data,      \* MarketDataManager.volume_data
    data_subscriptions, \* MarketDataManager.data_subscriptions: client -> symbols
    stream_pc,        \* per stream thread, where its on_message call stands
    stream_data,      \* per stream thread, the decoded message being processed
    stream_read,      \* per stream thread, the array it read for np.concatenate
    ticks_processed   \* messages with price and volume processed to the end

agent_vars == <<pc, reg_tags, reg_tool_names, actions, memory, max_iterations,
                iteration, responses, invocation, executed, exception>>
llm_vars == <<llm_pc, available, default_provider, stack, calls, llm_result>>
cli_vars == <<cli_pc, agent_info, selected_task, cli_choices, cli_prompts,
              cli_result>>
risk_vars == <<current_positions, daily_pnl, position_limit_overrides,
               legacy_position_limits, risk_calls, fills_checked, risk_last>>
audit_vars == <<audit_trail, customer_records, today, backup_file,
                retention_report>>
auth_vars == <<users, auth_calls, changed_to, auth_last>>
\* the demo trading platform's modules other than risk and compliance
portfolio_vars == <<client_portfolios, portfolio_calls, migration, portfolio_last>>
files_vars == <<files_pc, tree, pattern, max_depth, pending, matches, files_result>>
db_vars == <<DATABASE_CONNECTION, connections_opened, running, handler, task_pc,
            task_db>>
stream_vars == <<price_history, volume_data, data_subscriptions, stream_pc,
                stream_data, stream_read, ticks_processed>>
platform_vars == <<auth_vars, portfolio_vars, files_vars, db_vars, stream_vars>>
vars == <<agent_vars, llm_vars, cli_vars, risk_vars, audit_vars, platform_vars>>
not_agent_vars == <<llm_vars, cli_vars, risk_vars, audit_vars, platform_vars>>
not_llm_vars == <<agent_vars, cli_vars, risk_vars, audit_vars, platform_vars>>
not_cli_vars == <<agent_vars, llm_vars, risk_vars, audit_vars, platform_vars>>
not_risk_vars == <<agent_vars, llm_vars, cli_vars, audit_vars, platform_vars>>
not_audit_vars == <<agent_vars, llm_vars, cli_vars, risk_vars, platform_vars>>
framework_vars == <<agent_vars, llm_vars, cli_vars, risk_vars, audit_vars>>
not_auth_vars == <<framework_vars, portfolio_vars, files_vars, db_vars, stream_vars>>
not_portfolio_vars == <<framework_vars, auth_vars, files_vars, db_vars, stream_vars>>
not_files_vars == <<framework_vars, auth_vars, portfolio_vars, db_vars, stream_vars>>
not_db_vars == <<framework_vars, auth_vars, portfolio_vars, files_vars, stream_vars>>
not_stream_vars == <<framework_vars, auth_vars, portfolio_vars, files_vars, db_vars>>

(***************************************************************************)
(* Bounds of the model.                                                    *)
(***************************************************************************)
MaxIterations == 3
RecursionLimit == 3
MaxRiskCalls == 2
MaxAuditRecords == 2
MaxDay == 45
MaxAuthCalls == 2
MaxPortfolioCalls == 2
MaxLegacy == 2
MaxDepth == 2
MaxRequests == 3
MaxTicks == 3

(***************************************************************************)
(* Python helpers.                                                         *)
(***************************************************************************)
NoneList == [isNone |-> TRUE, items |-> <<>>]
ListOf(s) == [isNone |-> FALSE, items |-> s]
\* truth value of an Optional list: None and [] are falsy
Truthy(x) == (~x.isNone) /\ Len(x.items) > 0
Range(s) == {s[i] : i \in 1..Len(s)}
Keys(d) == {kv[1] : kv \in d}
Get(d, k) == (CHOOSE kv \in d : kv[1] = k)[2]

\* substring test on strings
Contains(s, sub) ==
    \E i \in 1..(Len(s) - Len(sub) + 1) : SubSeq(s, i, i + Len(sub) - 1) = sub

(***************************************************************************)
(* The state of a subsystem that has not been started.                     *)
(***************************************************************************)
Menus == {"focus", "agent", "task", "mode"}
NoAgent == [name |-> "", key |-> ""]
NoResult == [none |-> TRUE]

CLIIdle ==
    /\ cli_pc = "start"
    /\ agent_info = NoAgent
    /\ selected_task = ""
    /\ cli_choices = [m \in Menus |-> <<>>]
    /\ cli_prompts = 0
    /\ cli_result = NoResult

\* a dict with no entries
EmptyDict == [k \in {} |-> 0]
NoCall == [op |-> "", args |-> <<>>, result |-> <<>>]

\* the module after import: risk_manager = RiskManager() and a fresh
\* LegacyRiskSystem
RiskIdle ==
    /\ current_positions = EmptyDict
    /\ daily_pnl = EmptyDict
    /\ position_limit_overrides = EmptyDict
    /\ legacy_position_limits =
          [equity |-> 500000, bond |-> 1000000, forex |-> 250000, commodity |-> 750000]
    /\ risk_calls = 0
    /\ fills_checked = TRUE
    /\ risk_last = NoCall

NoFile ==
    [written |-> FALSE, name |-> 0,
     content |-> [audit_trail |-> <<>>, customer_records |-> EmptyDict]]
NoReport == [none |-> TRUE]

\* compliance_manager = ComplianceManager() at import
AuditIdle ==
    /\ audit_trail = <<>>
    /\ customer_records = EmptyDict
    /\ today = 0
    /\ backup_file = NoFile
    /\ retention_report = NoReport

\* bcrypt.gensalt draws a random salt; the salts of the model
Salts == {1, 2}
BCRYPT_ROUNDS == 4
\* bcrypt.hashpw: the hash is determined by the cost, the salt and the
\* password (passwords of at most 72 bytes, bcrypt taken as collision free)
hashpw(password, salt) ==
    [rounds |-> BCRYPT_ROUNDS, salt |-> salt, digest |-> password]

\* the authentication module before its import: no auth_manager yet
AuthIdle ==
    /\ users = EmptyDict
    /\ auth_calls = 0
    /\ changed_to = EmptyDict
    /\ auth_last = NoCall

NoMigration ==
    [run |-> FALSE, input |-> <<>>, legacy_data |-> <<>>,
     client_portfolios |-> EmptyDict, results |-> <<>>]

\* a fresh PortfolioManager(), and no migration run yet
PortfolioIdle ==
    /\ client_portfolios = EmptyDict
    /\ portfolio_calls = 0
    /\ migration = NoMigration
    /\ portfolio_last = NoCall

\* list_project_files_recursive before it is called
FilesIdle ==
    /\ files_pc = "start"
    /\ tree = {}
    /\ pattern = ""
    /\ max_depth = <<>>
    /\ pending = {}
    /\ matches = {}
    /\ files_result = <<>>

\* the tasks of the application: task 0 is the startup event, the others
\* are requests
Tasks == 0..MaxRequests

\* main.py after import: DATABASE_CONNECTION = None, and nothing scheduled
DbIdle ==
    /\ DATABASE_CONNECTION = 0
    /\ connections_opened = 0
    /\ running = 0 - 1
    /\ handler = [t \in Tasks |-> ""]
    /\ task_pc = [t \in Tasks |-> "idle"]
    /\ task_db = [t \in Tasks |-> 0]

StreamClients == {"c1", "c2"}
NoData == [price |-> <<>>, volume |-> <<>>]

\* market_data_manager = MarketDataManager() at import: empty arrays and no
\* stream started
StreamIdle ==
    /\ price_history = <<>>
    /\ volume_data = <<>>
    /\ data_subscriptions = EmptyDict
    /\ stream_pc = [c \in StreamClients |-> "idle"]
    /\ stream_data = [c \in StreamClients |-> NoData]
    /\ stream_read = [c \in StreamClients |-> <<>>]
    /\ ticks_processed = 0

PlatformIdle == AuthIdle /\ PortfolioIdle /\ FilesIdle /\ DbIdle /\ StreamIdle

(***************************************************************************)
(* The global tool table filled by the @register_tool decorators.          *)
(***************************************************************************)
tools ==
    [read_project_file |->
        [tags |-> {"file_operations", "read"}, terminal |-> FALSE],
     list_project_files |->
        [tags |-> {"file_operations", "list"}, terminal |-> FALSE],
     find_project_root |->
        [tags |-> {"file_operations", "search"}, terminal |-> FALSE],
     list_project_files_recursive |->
        [tags |-> {"file_operations", "search", "recursive"}, terminal |-> FALSE],
     analyze_financial_risk_patterns |->
        [tags |-> {"fintech", "risk_management", "analysis"}, terminal |-> FALSE],
     analyze_hft_performance_patterns |->
        [tags |-> {"fintech", "performance", "analysis"}, terminal |-> FALSE],
     analyze_regulatory_compliance |->
        [tags |-> {"fintech", "compliance", "security"}, terminal |-> FALSE],
     analyze_fintech_architecture_patterns |->
        [tags |-> {"fintech", "architecture", "analysis"}, terminal |-> FALSE],
     analyze_fintech_project_comprehensive |->
        [tags |-> {"fintech", "comprehensive", "analysis"}, terminal |-> FALSE],
     terminate |->
        [tags |-> {"system"}, terminal |-> TRUE]]

\* Action(name, function, description, parameters, terminal)
Action(tool_name) == [name |-> tool_name, terminal |-> tools[tool_name].terminal]

\* a registry filter that asks for all requested tags instead of any of them
PythonActionRegistry_all_tags(tags, tool_names) ==
    LET kept == {tool_name \in DOMAIN tools :
                    /\ ~(Truthy(tool_names) /\ tool_name \notin Range(tool_names.items))
                    /\ ~(Truthy(tags) /\
                         ~(\A i \in 1..Len(tags.items) :
                               tags.items[i] \in tools[tool_name].tags))}
    IN [tool_name \in kept |-> Action(tool_name)]

\* PythonActionRegistry.__init__: the loop over tools.items() with its two
\* "continue" filters; the result is the actions dict of the new registry.
PythonActionRegistry(tags, tool_names) ==
    LET kept == {tool_name \in DOMAIN tools :
                    /\ ~(Truthy(tool_names) /\ tool_name \notin Range(tool_names.items))
                    /\ ~(Truthy(tags) /\
                         ~(\E i \in 1..Len(tags.items) :
                               tags.items[i] \in tools[tool_name].tags))}
    IN [tool_name \in kept |-> Action(tool_name)]

\* the tags and tool_names arguments the model constructs registries with
TagChoices ==
    {NoneList, ListOf(<<>>), ListOf(<<"system">>), ListOf(<<"fintech">>),
     ListOf(<<"file_operations">>), ListOf(<<"file_operations", "system">>)}
ToolNameChoices ==
    {NoneList, ListOf(<<>>), ListOf(<<"read_project_file", "terminate">>)}

(***************************************************************************)
(* The model responses the run is fed, as the raw text the agent receives. *)
(***************************************************************************)
R_text == "not json at all"
R_terminate == "{\"tool\": \"terminate\", \"args\": {\"message\": \"done\"}}"
R_read == "{\"tool\": \"read_project_file\", \"args\": {\"name\": \"README.md\"}}"
R_unknown == "{\"tool\": \"unknown_tool\", \"args\": {}}"
R_no_args == "{\"tool\": \"terminate\"}"
R_no_tool == "{\"args\": {}}"
R_array == "[]"
R_truncated == "{\"tool\": \"terminate\", \"args\":"
ResponseSet ==
    {R_text, R_truncated, R_terminate, R_read, R_unknown, R_no_args, R_no_tool, R_array}

JsonObject(tool, args) == [kind |-> "object", tool |-> tool, args |-> args]
JsonArray == [kind |-> "array", tool |-> <<>>, args |-> <<>>]

\* json.loads on the texts of ResponseSet: the decoded value, or ok = FALSE
\* where json.loads raises JSONDecodeError
json_loads(s) ==
    CASE s = R_terminate ->
            [ok |-> TRUE,
             value |-> JsonObject(<<"terminate">>, <<{<<"message", "done">>}>>)]
      [] s = R_read ->
            [ok |-> TRUE,
             value |-> JsonObject(<<"read_project_file">>, <<{<<"name", "README.md">>}>>)]
      [] s = R_unknown ->
            [ok |-> TRUE, value |-> JsonObject(<<"unknown_tool">>, <<{}>>)]
      [] s = R_no_args ->
            [ok |-> TRUE, value |-> JsonObject(<<"terminate">>, <<>>)]
      [] s = R_no_tool ->
            [ok |-> TRUE, value |-> JsonObject(<<>>, <<{}>>)]
      [] s = R_array ->
            [ok |-> TRUE, value |-> JsonArray]
      [] OTHER ->
            [ok |-> FALSE, value |-> JsonArray]

\* parse_response whose fallback forgets the raw text
parse_response_empty_message(response) ==
    IF json_loads(response).ok
    THEN json_loads(response).value
    ELSE JsonObject(<<"terminate">>, <<{<<"message", "">>}>>)

\* AgentFunctionCallingActionLanguage.parse_response
parse_response(response) ==
    IF json_loads(response).ok
    THEN json_loads(response).value
    ELSE JsonObject(<<"terminate">>, <<{<<"message", response>>}>>)

\* ActionRegistry.get_action: self.actions.get(name, None); <<>> is None
ActionRegistry_get_action(name) ==
    IF name \in DOMAIN actions THEN <<actions[name]>> ELSE <<>>

\* get_action that indexes the registry (self.actions.actions[name]) and so
\* raises KeyError on a name the registry does not hold
get_action_indexing(response) ==
    LET inv == parse_response(response) IN
    IF inv.kind # "object"
    THEN [raised |-> "TypeError", action |-> <<>>, invocation |-> inv]
    ELSE IF inv.tool = <<>> \/ inv.tool[1] \notin DOMAIN actions
    THEN [raised |-> "KeyError", action |-> <<>>, invocation |-> inv]
    ELSE [raised |-> "", action |-> <<actions[inv.tool[1]]>>, invocation |-> inv]

\* Agent.get_action: parse, then invocation["tool"], then the registry lookup.
\* invocation["tool"] raises TypeError on a list and KeyError on an object
\* without that key.
get_action(response) ==
    LET inv == parse_response(response) IN
    IF inv.kind # "object"
    THEN [raised |-> "TypeError", action |-> <<>>, invocation |-> inv]
    ELSE IF inv.tool = <<>>
    THEN [raised |-> "KeyError", action |-> <<>>, invocation |-> inv]
    ELSE [raised |-> "", action |-> ActionRegistry_get_action(inv.tool[1]),
          invocation |-> inv]

\* should_terminate that never reports a terminal action
should_terminate_never(response) == FALSE

\* Agent.should_terminate (called on a response get_action already accepted)
should_terminate(response) ==
    LET action_def == get_action(response).action IN
    IF action_def # <<>> THEN action_def[1].terminal ELSE FALSE

(***************************************************************************)
(* Tool functions, Environment, Memory.                                    *)
(***************************************************************************)
\* tool functions in which terminate returns the fixed note without the message
CallTool_note_only(name, args) ==
    CASE name = "terminate" ->
            IF Keys(args) = {"message"}
            THEN [raised |-> FALSE, value |-> "Terminating..."]
            ELSE [raised |-> TRUE, value |-> "TypeError"]
      [] name = "read_project_file" ->
            IF Keys(args) = {"name"}
            THEN [raised |-> FALSE, value |-> "# " \o Get(args, "name")]
            ELSE [raised |-> TRUE, value |-> "TypeError"]
      [] OTHER ->
            IF args = {}
            THEN [raised |-> FALSE, value |-> "ok"]
            ELSE [raised |-> TRUE, value |-> "TypeError"]

\* function(**args) for the tools the responses name.  A call whose keyword
\* arguments do not fit the signature raises TypeError.
CallTool(name, args) ==
    CASE name = "terminate" ->
            IF Keys(args) = {"message"}
            THEN [raised |-> FALSE, value |-> Get(args, "message") \o "\nTerminating..."]
            ELSE [raised |-> TRUE, value |-> "TypeError"]
      [] name = "read_project_file" ->
            IF Keys(args) = {"name"}
            THEN [raised |-> FALSE, value |-> "# " \o Get(args, "name")]
            ELSE [raised |-> TRUE, value |-> "TypeError"]
      [] OTHER ->
            IF args = {}
            THEN [raised |-> FALSE, value |-> "ok"]
            ELSE [raised |-> TRUE, value |-> "TypeError"]

\* Environment.execute_action: the result envelope that tells a tool result
\* from a tool-raised exception
execute_action(action, args) ==
    LET r == CallTool(action.name, args) IN
    IF r.raised
    THEN [tool_executed |-> FALSE, result |-> "", error |-> r.value]
    ELSE [tool_executed |-> TRUE, result |-> r.value, error |-> ""]

\* the escaping json.dumps applies inside a string
RECURSIVE JsonEscape(_)
JsonEscape(s) ==
    IF Len(s) = 0 THEN ""
    ELSE (CASE SubSeq(s, 1, 1) = "\n" -> "\\n"
            [] SubSeq(s, 1, 1) = "\"" -> "\\\""
            [] SubSeq(s, 1, 1) = "\\" -> "\\\\"
            [] OTHER -> SubSeq(s, 1, 1))
         \o JsonEscape(SubSeq(s, 2, Len(s)))

\* json.dumps of a result envelope
json_dumps(result) ==
    IF result.tool_executed
    THEN "{\"tool_executed\": true, \"result\": \"" \o JsonEscape(result.result) \o "\"}"
    ELSE "{\"tool_executed\": false, \"error\": \"" \o JsonEscape(result.error) \o "\"}"

\* Memory.add_memory
add_memory(mem, m) == Append(mem, m)

\* Agent.set_current_task
set_current_task(mem, task) == add_memory(mem, [type |-> "user", content |-> task])

\* update_memory that records the environment result before the response
update_memory_swapped(mem, response, result) ==
    add_memory(add_memory(mem, [type |-> "environment", content |-> json_dumps(result)]),
               [type |-> "assistant", content |-> response])

\* Agent.update_memory
update_memory(mem, response, result) ==
    add_memory(add_memory(mem, [type |-> "assistant", content |-> response]),
               [type |-> "environment", content |-> json_dumps(result)])

UserTask == "Analyze this project"

(***************************************************************************)
(* Part A actions.                                                         *)
(***************************************************************************)
\* An agent factory: build the registry, construct the Agent around it.
CreateAgent(tags, tool_names) ==
    /\ pc = "start"
    /\ reg_tags' = tags
    /\ reg_tool_names' = tool_names
    /\ actions' = PythonActionRegistry(tags, tool_names)
    /\ pc' = "ready"
    /\ UNCHANGED <<memory, max_iterations, iteration, responses, invocation,
                   executed, exception>>
    /\ UNCHANGED not_agent_vars

\* Agent.run up to the loop: memory = Memory(); set_current_task
Run(user_input, max_it) ==
    /\ pc = "ready"
    /\ memory' = set_current_task(<<>>, user_input)
    /\ max_iterations' = max_it
    /\ iteration' = 0
    /\ pc' = "loop"
    /\ UNCHANGED <<reg_tags, reg_tool_names, actions, responses, invocation,
                   executed, exception>>
    /\ UNCHANGED not_agent_vars

\* One body of the loop of Agent.run, fed the model response "response".
LoopIteration(response) ==
    /\ pc = "loop"
    /\ iteration < max_iterations
    /\ iteration' = iteration + 1
    /\ responses' = Append(responses, response)
    /\ LET got == get_action(response) IN
       /\ invocation' = got.invocation
       /\ IF got.raised # ""
          THEN \* invocation["tool"] raised inside get_action
               /\ pc' = "raised"
               /\ exception' = got.raised
               /\ UNCHANGED <<memory, executed>>
          ELSE IF got.action = <<>>
          THEN \* "Unknown action": break
               /\ pc' = "returned"
               /\ UNCHANGED <<memory, executed, exception>>
          ELSE IF got.invocation.args = <<>>
          THEN \* invocation["args"] raises KeyError
               /\ pc' = "raised"
               /\ exception' = "KeyError"
               /\ UNCHANGED <<memory, executed>>
          ELSE /\ executed' = Append(executed,
                       [name |-> got.action[1].name, at |-> iteration + 1])
               /\ memory' = update_memory(memory, response,
                       execute_action(got.action[1], got.invocation.args[1]))
               /\ pc' = IF should_terminate(response) THEN "returned" ELSE "loop"
               /\ UNCHANGED exception
    /\ UNCHANGED <<reg_tags, reg_tool_names, actions, max_iterations>>
    /\ UNCHANGED not_agent_vars

\* range(max_iterations) is used up: fall out of the loop and return memory
LoopExhausted ==
    /\ pc = "loop"
    /\ iteration >= max_iterations
    /\ pc' = "returned"
    /\ UNCHANGED <<reg_tags, reg_tool_names, actions, memory, max_iterations,
                   iteration, responses, invocation, executed, exception>>
    /\ UNCHANGED not_agent_vars

AgentInit ==
    /\ pc = "start"
    /\ reg_tags = NoneList
    /\ reg_tool_names = NoneList
    /\ actions = <<>>
    /\ memory = <<>>
    /\ max_iterations = 0
    /\ iteration = 0
    /\ responses = <<>>
    /\ invocation = JsonArray
    /\ executed = <<>>
    /\ exception = ""

LLMIdle ==
    /\ llm_pc = "start"
    /\ available = <<>>
    /\ default_provider = "openai"
    /\ stack = <<>>
    /\ calls = <<>>
    /\ llm_result = ""

Init == AgentInit /\ LLMIdle /\ CLIIdle /\ RiskIdle /\ AuditIdle
        /\ PlatformIdle

Next ==
    \/ \E tags \in TagChoices, tool_names \in ToolNameChoices :
           CreateAgent(tags, tool_names)
    \/ \E max_it \in 0..MaxIterations : Run(UserTask, max_it)
    \/ \E response \in ResponseSet : LoopIteration(response)
    \/ LoopExhausted

Spec == Init /\ [][Next]_vars

(***************************************************************************)
(* Part B: LLMConfig and LLMClient.                                        *)
(***************************************************************************)
Providers == <<"openai", "anthropic">>

\* LLMConfig.validate_provider
validate_provider(provider) == provider \in Range(available)

\* LLMConfig.get_available_providers for a set of configured API keys
get_available_providers(keys) == SelectSeq(Providers, LAMBDA p : p \in keys)

\* LLMClient._select_best_provider (the client exists, so available # [])
select_best_provider ==
    IF default_provider \in Range(available) THEN default_provider ELSE available[1]

\* what litellm's completion hands back: a tool call or plain content
CompletionToolCall ==
    [has_tool_calls |-> TRUE, name |-> "terminate",
     arguments |-> "{\"message\": \"done\"}", content |-> ""]
CompletionText ==
    [has_tool_calls |-> FALSE, name |-> "", arguments |-> "", content |-> "All done."]
CompletionResults == {CompletionToolCall, CompletionText}

\* str(e) of the exceptions completion raises
FailureMessages == {"timeout", "rate limit"}

RecursionErrorMessage == "maximum recursion depth exceeded"

\* LLMClient._process_response
process_response(response) ==
    IF response.has_tool_calls
    THEN "{\"tool\": \"" \o response.name \o "\", \"args\": " \o response.arguments \o "}"
    ELSE response.content

\* the providers _attempt_fallback may turn to
fallback_providers(failed_provider) ==
    SelectSeq(available, LAMBDA p : p # failed_provider)

\* the message of the Exception _attempt_fallback raises when the fallback
\* call failed as well
CombinedMessage(frame, fallback_error) ==
    "Primary provider (" \o frame.provider \o ") failed: " \o frame.primary_error
        \o ". Fallback provider (" \o frame.fallback \o ") also failed: "
        \o fallback_error

\* an exception with message msg leaves the innermost generate_response and
\* travels outwards: every enclosing _attempt_fallback catches it as its
\* fallback_error and raises the combined Exception in its place
RECURSIVE Unwind(_, _)
Unwind(frames, msg) ==
    IF frames = <<>> THEN msg
    ELSE Unwind(SubSeq(frames, 1, Len(frames) - 1),
                CombinedMessage(frames[Len(frames)], msg))

Frame(provider) == [provider |-> provider, primary_error |-> "", fallback |-> ""]

\* LLMClient.__init__: LLMConfig() and _validate_setup
NewLLMClient(keys, dflt) ==
    /\ llm_pc = "start"
    /\ available' = get_available_providers(keys)
    /\ default_provider' = dflt
    /\ IF get_available_providers(keys) = <<>>
       THEN /\ llm_pc' = "raised"
            /\ llm_result' = "No LLM providers configured."
       ELSE /\ llm_pc' = "idle"
            /\ UNCHANGED llm_result
    /\ UNCHANGED <<stack, calls>>
    /\ UNCHANGED not_llm_vars

\* LLMClient.generate_response up to the primary attempt; provider = "" is
\* provider=None
GenerateResponse(provider) ==
    /\ llm_pc = "idle"
    /\ calls' = <<>>
    /\ IF provider # "" /\ ~validate_provider(provider)
       THEN /\ llm_pc' = "raised"
            /\ llm_result' = "Provider '" \o provider \o "' not available. Check API key."
            /\ UNCHANGED stack
       ELSE /\ llm_pc' = "calling"
            /\ stack' = <<Frame(IF provider = "" THEN select_best_provider ELSE provider)>>
            /\ UNCHANGED llm_result
    /\ UNCHANGED <<available, default_provider>>
    /\ UNCHANGED not_llm_vars

\* The completion call of the innermost generate_response succeeds: the value
\* of _process_response is returned through every enclosing frame.
CompletionSucceeds(response) ==
    /\ llm_pc = "calling"
    /\ calls' = Append(calls, [provider |-> stack[Len(stack)].provider, error |-> ""])
    /\ llm_pc' = "returned"
    /\ llm_result' = process_response(response)
    /\ stack' = <<>>
    /\ UNCHANGED <<available, default_provider>>
    /\ UNCHANGED not_llm_vars

\* The completion call of the innermost generate_response raises an exception
\* with message error: _call_llm_with_retry re-raises it, generate_response
\* catches it as primary_error and runs _attempt_fallback.
CompletionFails(error) ==
    /\ llm_pc = "calling"
    /\ LET top == stack[Len(stack)]
           outer == SubSeq(stack, 1, Len(stack) - 1)
           fb == fallback_providers(top.provider)
       IN
       /\ calls' = Append(calls, [provider |-> top.provider, error |-> error])
       /\ IF fb = <<>>
          THEN \* raise primary_error
               /\ llm_pc' = "raised"
               /\ llm_result' = Unwind(outer, error)
               /\ stack' = <<>>
          ELSE IF Len(stack) >= RecursionLimit
          THEN \* the interpreter refuses the nested generate_response
               /\ llm_pc' = "raised"
               /\ llm_result' =
                    Unwind(Append(outer, [provider |-> top.provider,
                                          primary_error |-> error,
                                          fallback |-> fb[1]]),
                           RecursionErrorMessage)
               /\ stack' = <<>>
          ELSE \* self.generate_response(prompt, provider=fallback_provider)
               /\ llm_pc' = "calling"
               /\ stack' = Append(Append(outer, [provider |-> top.provider,
                                                 primary_error |-> error,
                                                 fallback |-> fb[1]]),
                                  Frame(fb[1]))
               /\ UNCHANGED llm_result
    /\ UNCHANGED <<available, default_provider>>
    /\ UNCHANGED not_llm_vars

AgentIdle == AgentInit

LLMInit == AgentIdle /\ LLMIdle /\ CLIIdle /\ RiskIdle /\ AuditIdle
        /\ PlatformIdle

LLMNext ==
    \/ \E keys \in SUBSET Range(Providers), dflt \in Range(Providers) :
           NewLLMClient(keys, dflt)
    \/ \E provider \in {""} \cup Range(Providers) : GenerateResponse(provider)
    \/ \E response \in CompletionResults : CompletionSucceeds(response)
    \/ \E error \in FailureMessages : CompletionFails(error)

LLMSpec == LLMInit /\ [][LLMNext]_vars

(***************************************************************************)
(* Properties of Part A, checked under Spec.                               *)
(***************************************************************************)
Last(seq) == seq[Len(seq)]
UserRecord == [type |-> "user", content |-> UserTask]
AssistantRecord(response) == [type |-> "assistant", content |-> response]

\* the response names a tool and the agent's registry holds it
ToolFound(response) ==
    LET inv == parse_response(response) IN
    inv.kind = "object" /\ inv.tool # <<>> /\ inv.tool[1] \in DOMAIN actions

\* the response parses to a tool name the agent's registry does not hold
NamesUnknownTool(response) ==
    LET inv == parse_response(response) IN
    inv.kind = "object" /\ inv.tool # <<>> /\ inv.tool[1] \notin DOMAIN actions

\* the environment record of executing the call the response asks for
EnvironmentRecord(response) ==
    LET inv == parse_response(response) IN
    [type |-> "environment",
     content |-> json_dumps(execute_action(actions[inv.tool[1]], inv.args[1]))]

\* C1: every loop iteration whose tool is found in the registry appends
\* exactly the assistant record of the raw response and then the environment
\* record of the JSON-encoded result; an iteration whose lookup fails appends
\* nothing.
C1_TwoRecordsPerFoundIteration ==
    [][(responses' # responses) =>
         LET r == Last(responses') IN
         IF ToolFound(r)
         THEN /\ Len(memory') = Len(memory) + 2
              /\ SubSeq(memory', 1, Len(memory)) = memory
              /\ memory'[Len(memory) + 1] = AssistantRecord(r)
              /\ memory'[Len(memory) + 2] = EnvironmentRecord(r)
         ELSE memory' = memory]_vars

\* C2: a response that parses to a tool name absent from the registry ends
\* run at that iteration: run returns, no exception escapes, nothing is
\* appended for the turn, and on the first iteration the memory holds only
\* the user's task record.
C2_UnknownToolHalts ==
    [][(responses' # responses /\ NamesUnknownTool(Last(responses'))) =>
         /\ pc' = "returned"
         /\ exception' = ""
         /\ memory' = memory
         /\ executed' = executed
         /\ (Len(responses') = 1 => memory' = <<UserRecord>>)]_vars

C2_Witness ==
    /\ pc = "returned"
    /\ Len(responses) = 1
    /\ responses[1] = R_unknown
    /\ DOMAIN actions # {}
    /\ memory = <<UserRecord>>

\* C3: run requests at most max_iterations model responses and then returns
\* the memory; it never ends by raising, whatever the responses are.
C3_BoundedRunReturns ==
    /\ Len(responses) <= max_iterations
    /\ pc # "raised"
    /\ (pc = "loop" /\ iteration >= max_iterations => ENABLED LoopExhausted)

\* C4: an executed terminal action is the last thing the run does: no later
\* model response, no later action, run has returned and the call's assistant
\* and environment records are the last two records of the memory.
C4_TerminalCallIsLast ==
    \A i \in 1..Len(executed) :
        actions[executed[i].name].terminal =>
            /\ i = Len(executed)
            /\ executed[i].at = Len(responses)
            /\ pc = "returned"
            /\ Len(memory) >= 3
            /\ memory[Len(memory) - 1] = AssistantRecord(Last(responses))
            /\ memory[Len(memory)] = EnvironmentRecord(Last(responses))

C4_Witness ==
    /\ pc = "returned"
    /\ Len(executed) >= 2
    /\ actions[Last(executed).name].terminal
    /\ Len(memory) = 5

\* the contents of the assistant records of a memory, in order
AssistantContents(mem) ==
    LET sel == SelectSeq(mem, LAMBDA m : m.type = "assistant")
    IN [i \in 1..Len(sel) |-> sel[i].content]

\* C5 as stated: the returned memory is the user's task record followed, in
\* order, by every model response the run received.
C5_EveryResponseRecorded ==
    pc = "returned" =>
        /\ memory[1] = UserRecord
        /\ AssistantContents(memory) = responses

\* the records a run writes for a sequence of responses: the assistant and
\* environment pair of each response whose tool the registry holds
RECURSIVE Transcript(_)
Transcript(rs) ==
    IF rs = <<>> THEN <<>>
    ELSE (IF ToolFound(rs[1])
          THEN <<AssistantRecord(rs[1]), EnvironmentRecord(rs[1])>>
          ELSE <<>>) \o Transcript(Tail(rs))

\* C5 amended: the returned memory is the user's task record followed, in
\* order, by the assistant and environment records of every response whose
\* tool was found; the response that halts the run on an unknown tool is not
\* recorded.
C5_RecordedTranscript ==
    pc = "returned" =>
        /\ memory = <<UserRecord>> \o Transcript(responses)
        /\ \A i \in 1..Len(responses) :
               ~ToolFound(responses[i]) =>
                   i = Len(responses) /\ NamesUnknownTool(responses[i])

C5_Witness ==
    /\ pc = "returned"
    /\ Len(responses) = 2
    /\ NamesUnknownTool(responses[2])
    /\ Len(memory) = 3
    /\ AssistantContents(memory) = <<responses[1]>>

NotJson(response) == ~json_loads(response).ok

\* C6 as stated: a response that is not JSON ends the run at that iteration
\* without raising and its raw text is carried by the final records of the
\* returned memory.
C6_NonJsonTextCarried ==
    (responses # <<>> /\ NotJson(Last(responses))) =>
        /\ pc = "returned"
        /\ exception = ""
        /\ Len(memory) >= 3
        /\ memory[Len(memory) - 1] = AssistantRecord(Last(responses))
        /\ memory[Len(memory)].type = "environment"
        /\ Contains(memory[Len(memory)].content, JsonEscape(Last(responses)))

\* C6 amended: a response that is not JSON ends the run at that iteration
\* without raising; when the registry holds the terminate action the raw text
\* is the last assistant record and is carried by the final environment
\* record, and when it does not the turn leaves no record of the raw text.
C6_NonJsonEndsRun ==
    (responses # <<>> /\ NotJson(Last(responses))) =>
        /\ pc = "returned"
        /\ exception = ""
        /\ IF "terminate" \in DOMAIN actions
           THEN /\ Len(memory) = 2 * Len(responses) + 1
                /\ memory[Len(memory) - 1] = AssistantRecord(Last(responses))
                /\ memory[Len(memory)].type = "environment"
                /\ Contains(memory[Len(memory)].content,
                            JsonEscape(Last(responses)))
           ELSE /\ Len(memory) = 2 * Len(responses) - 1
                /\ \A i \in 1..Len(memory) : memory[i].content # Last(responses)

C6_Witness ==
    /\ pc = "returned"
    /\ Len(responses) = 2
    /\ responses[2] = R_text
    /\ Last(executed) = [name |-> "terminate", at |-> 2]
    /\ memory[4] = AssistantRecord(R_text)

\* C7: for a response that is not JSON, parse_response raises nothing and
\* returns exactly tool = "terminate", args = {"message": the raw text}.
C7_NonJsonParsesToTerminate ==
    (responses # <<>> /\ NotJson(Last(responses))) =>
        /\ invocation =
              JsonObject(<<"terminate">>, <<{<<"message", Last(responses)>>}>>)
        /\ pc # "raised"

C7_Witness ==
    /\ responses = <<R_truncated>>
    /\ invocation.tool = <<"terminate">>
    /\ Get(invocation.args[1], "message") = R_truncated

\* C10: a registry built with no tags (None or an empty list) holds no action.
C10_NoTagsEmptyRegistry ==
    (pc # "start" /\ ~Truthy(reg_tags)) => DOMAIN actions = {}

\* the tools of the global table that carry at least one of the tags
CarryingATag(tags) ==
    {n \in DOMAIN tools : tools[n].tags \cap Range(tags) # {}}

C26_ResponseShapeNeverRaises ==
    [][Len(responses') = Len(responses) + 1 =>
          /\ exception' = ""
          /\ \/ /\ Len(executed') = Len(executed) + 1
                /\ executed'[Len(executed')].name \in DOMAIN actions
             \/ pc' = "returned" /\ executed' = executed]_vars

(***************************************************************************)
(* Properties of Part B, checked under LLMSpec.                            *)
(***************************************************************************)
\* C8: with two providers configured, one generate_response makes at most two
\* completion calls: after a failed primary call exactly one further call,
\* against the other provider, and then the request returns or raises.
C8_AtMostTwoCompletionCalls ==
    Len(available) = 2 =>
        /\ Len(calls) <= 2
        /\ (Len(calls) = 2 =>
               /\ calls[1].error # ""
               /\ calls[2].provider # calls[1].provider
               /\ llm_pc \in {"returned", "raised"})

\* C9: when the primary call and the fallback call both fail, the request
\* raises an error whose message contains both failure messages.
C9_BothFailuresReported ==
    (/\ llm_pc \in {"returned", "raised"}
     /\ Len(calls) >= 2
     /\ calls[1].error # ""
     /\ calls[2].error # "") =>
        /\ llm_pc = "raised"
        /\ Contains(llm_result, calls[1].error)
        /\ Contains(llm_result, calls[2].error)

(***************************************************************************)
(* Part C: the progressive selection CLI (progressive_agent_selection.py). *)
(* Every input() call is one step; the answer typed is drawn from          *)
(* CLIInputs.  print() calls have no effect on the state and are left out. *)
(***************************************************************************)
CLIInputs == {"", "1", "2", "4", "5", "6", "7", "-1", "abc", " 2 "}

\* str.strip() on the blanks the inputs contain
RECURSIVE lstrip(_)
lstrip(s) ==
    IF Len(s) > 0 /\ SubSeq(s, 1, 1) = " " THEN lstrip(SubSeq(s, 2, Len(s))) ELSE s

RECURSIVE rstrip(_)
rstrip(s) ==
    IF Len(s) > 0 /\ SubSeq(s, Len(s), Len(s)) = " "
    THEN rstrip(SubSeq(s, 1, Len(s) - 1))
    ELSE s

strip(s) == rstrip(lstrip(s))

Digits == <<"0", "1", "2", "3", "4", "5", "6", "7", "8", "9">>
IsDigit(c) == c \in Range(Digits)
DigitValue(c) == (CHOOSE d \in 1..10 : Digits[d] = c) - 1

RECURSIVE digits_value(_)
digits_value(s) ==
    IF Len(s) = 0 THEN 0
    ELSE 10 * digits_value(SubSeq(s, 1, Len(s) - 1))
            + DigitValue(SubSeq(s, Len(s), Len(s)))

\* int(str): an optional sign and at least one decimal digit, anything else
\* raises ValueError (ok = FALSE)
ValueError == [ok |-> FALSE, value |-> 0]
int(s) ==
    LET signed == Len(s) > 0 /\ SubSeq(s, 1, 1) \in {"+", "-"}
        digits == IF signed THEN SubSeq(s, 2, Len(s)) ELSE s
    IN IF Len(digits) = 0 \/ \E i \in 1..Len(digits) : ~IsDigit(SubSeq(digits, i, i))
       THEN ValueError
       ELSE [ok |-> TRUE,
             value |-> IF SubSeq(s, 1, 1) = "-" THEN 0 - digits_value(digits)
                       ELSE digits_value(digits)]

\* the menu of step3a_select_fintech_agent
agents ==
    <<[name |-> "TRADING RISK MANAGEMENT AGENT", key |-> "risk_management"],
      [name |-> "HIGH FREQUENCY TRADING PERFORMANCE OPTIMIZATION", key |-> "performance"],
      [name |-> "REGULATORY COMPLIANCE AGENT", key |-> "compliance"],
      [name |-> "ARCHITECTURE EVALUATION AGENT", key |-> "architecture"],
      [name |-> "COMPREHENSIVE ANALYSIS AGENT", key |-> "comprehensive"],
      [name |-> "CUSTOM ANALYSIS", key |-> "custom"]>>

\* the menu of step3b_select_utility_agent
utilities ==
    <<[name |-> "DOCUMENTATION AGENT", key |-> "readme"],
      [name |-> "GENERAL CODE ANALYSIS AGENT", key |-> "code_analysis"],
      [name |-> "PROJECT UTILITIES AGENT", key |-> "file_explorer"],
      [name |-> "CUSTOM UTILITY AGENT", key |-> "custom_utility"]>>

task_sets ==
    [risk_management |->
        <<"Trading system risk controls assessment (position limits, stop losses, circuit breakers)",
          "Operational risk pattern analysis with control gap identification",
          "Portfolio risk management evaluation with VaR considerations",
          "Risk control maturity assessment for trading environments">>,
     performance |->
        <<"High-frequency trading latency analysis and bottleneck identification",
          "Trading system performance patterns with optimization recommendations",
          "Memory efficiency and network optimization assessment",
          "HFT readiness evaluation with specific performance metrics">>,
     compliance |->
        <<"Financial services compliance analysis (SOX, GDPR, PCI-DSS)",
          "Security vulnerability assessment with regulatory context",
          "Data protection and audit logging compliance review",
          "Regulatory readiness evaluation for financial services">>,
     architecture |->
        <<"FinTech system architecture patterns and scalability assessment",
          "Microservices and API security analysis for financial services",
          "Enterprise deployment readiness evaluation",
          "Technology stack assessment for financial applications">>,
     comprehensive |->
        <<"Complete FinTech assessment across all domains (risk, performance, compliance, architecture)",
          "Cross-domain integration analysis with strategic recommendations",
          "Enterprise-grade system evaluation for financial services",
          "Comprehensive technical capability demonstration">>]

utility_tasks ==
    [readme |->
        <<"Generate professional README highlighting FinTech capabilities",
          "Create technical documentation for financial services deployment",
          "Generate compliance documentation templates",
          "Create executive summary of technical capabilities">>,
     code_analysis |->
        <<"Basic code structure analysis with FinTech pattern recognition",
          "File exploration with financial technology awareness",
          "Project summary with emphasis on enterprise-grade features",
          "Technical debt assessment with FinTech focus">>,
     file_explorer |->
        <<"Create GitHub repository structure for FinTech portfolios",
          "Generate project metrics and technical capabilities summary",
          "Prepare executive briefing materials",
          "Create professional project presentation structure">>]

\* dict.get(key, default)
dict_get(d, key, default) == IF key \in DOMAIN d THEN d[key] ELSE default

\* the preset tasks Step 4 lists for an agent
fintech_tasks(info) == dict_get(task_sets, info.key, task_sets["comprehensive"])
utility_tasks_of(info) == dict_get(utility_tasks, info.key, utility_tasks["readme"])

\* d[key] on a dict with keys 1..Len(d): KeyError when the key is absent
dict_index(d, key) ==
    IF key \in DOMAIN d THEN [raised |-> "", value |-> d[key]]
    ELSE [raised |-> "KeyError", value |-> NoAgent]

\* l[i] on a list: negative indexes count from the end, IndexError outside
list_index(l, i) ==
    IF 0 <= i /\ i < Len(l) THEN [raised |-> "", value |-> l[i + 1]]
    ELSE IF 0 - Len(l) <= i /\ i < 0 THEN [raised |-> "", value |-> l[Len(l) + i + 1]]
    ELSE [raised |-> "IndexError", value |-> ""]

\* a menu choice that reads numbers up to one past the end of the menu
select_from_menu_off_by_one(menu, custom, fallback, choice) ==
    LET selected == int(choice)
    IN IF selected.ok /\ 1 <= selected.value /\ selected.value <= custom + 1
       THEN LET info == dict_index(menu, selected.value)
            IN [raised |-> info.raised, info |-> info.value,
                custom |-> selected.value = custom]
       ELSE [raised |-> "", info |-> menu[fallback], custom |-> FALSE]

\* the try/except of step3a_select_fintech_agent and of
\* step3b_select_utility_agent: menu entry 1..custom, entry "custom" asks for
\* a free-text task, every other answer selects the entry "fallback"
select_from_menu(menu, custom, fallback, choice) ==
    LET selected == int(choice)
    IN IF selected.ok /\ 1 <= selected.value /\ selected.value <= custom
       THEN LET info == dict_index(menu, selected.value)
            IN [raised |-> info.raised, info |-> info.value,
                custom |-> selected.value = custom]
       ELSE [raised |-> "", info |-> menu[fallback], custom |-> FALSE]

\* a Step 4 that sends every answer that is not a preset number to the first
\* preset task
select_task_first_preset(tasks, choice) ==
    LET task_num == int(choice)
    IN IF task_num.ok /\ 1 <= task_num.value /\ task_num.value <= Len(tasks)
       THEN LET task == list_index(tasks, task_num.value - 1)
            IN [raised |-> task.raised, prompt |-> FALSE, task |-> task.value]
       ELSE [raised |-> "", prompt |-> FALSE, task |-> tasks[1]]

\* the try/except of step4_select_specific_tasks and of
\* step4_select_utility_tasks; prompt = TRUE when the code goes on to
\* input("Describe your custom task: ")
select_task(tasks, choice) ==
    LET task_num == int(choice)
    IN IF task_num.ok
       THEN IF 1 <= task_num.value /\ task_num.value <= Len(tasks)
            THEN LET task == list_index(tasks, task_num.value - 1)
                 IN [raised |-> task.raised, prompt |-> FALSE, task |-> task.value]
            ELSE [raised |-> "", prompt |-> TRUE, task |-> ""]
       ELSE IF choice # ""
            THEN [raised |-> "", prompt |-> FALSE, task |-> choice]
            ELSE [raised |-> "", prompt |-> FALSE, task |-> tasks[1]]

\* the dict returned by step3b_select_utility_agent and
\* step4_select_utility_tasks
utility_result(info, task) ==
    [agent_key |-> info.key, agent_name |-> info.name, task |-> task,
     use_hybrid |-> FALSE, category |-> "Basic Utilities"]

\* the dict returned by step5_hybrid_analysis_option
hybrid_analysis_result(info, task, choice) ==
    LET use_hybrid == (choice = "2")
    IN IF use_hybrid
       THEN [agent_key |-> IF info.key # "custom" THEN "hybrid_" \o info.key
                           ELSE "hybrid_comprehensive",
             agent_name |-> info.name, task |-> task,
             use_hybrid |-> use_hybrid, category |-> "Hybrid Analysis"]
       ELSE [agent_key |-> IF info.key # "custom" THEN info.key ELSE "comprehensive",
             agent_name |-> info.name, task |-> task,
             use_hybrid |-> use_hybrid, category |-> "FinTech Specialized"]

\* one input() call: the answer of a menu is remembered stripped
Asked(menu, choice) ==
    /\ cli_prompts' = cli_prompts + 1
    /\ cli_choices' = [cli_choices EXCEPT ![menu] = <<choice>>]

AskedFreeText ==
    /\ cli_prompts' = cli_prompts + 1
    /\ UNCHANGED cli_choices

(***************************************************************************)
(* Part C actions.                                                         *)
(***************************************************************************)
\* run_progressive_task_selection is called and shows the focus menu
run_progressive_task_selection ==
    /\ cli_pc = "start"
    /\ cli_pc' = "focus"
    /\ UNCHANGED <<agent_info, selected_task, cli_choices, cli_prompts, cli_result>>
    /\ UNCHANGED not_cli_vars

step3_select_analysis_focus(answer) ==
    /\ cli_pc = "focus"
    /\ LET choice == strip(answer)
       IN /\ Asked("focus", choice)
          /\ cli_pc' = IF choice = "2" THEN "utility" ELSE "agent"
    /\ UNCHANGED <<agent_info, selected_task, cli_result>>
    /\ UNCHANGED not_cli_vars

step3a_select_fintech_agent(answer) ==
    /\ cli_pc = "agent"
    /\ LET choice == strip(answer)
           picked == select_from_menu(agents, 6, 5, choice)
       IN /\ Asked("agent", choice)
          /\ IF picked.raised # ""
             THEN cli_pc' = "raised" /\ UNCHANGED agent_info
             ELSE /\ agent_info' = picked.info
                  /\ cli_pc' = IF picked.custom THEN "custom_fintech" ELSE "task"
    /\ UNCHANGED <<selected_task, cli_result>>
    /\ UNCHANGED not_cli_vars

\* input("Describe your custom FinTech analysis needs: ") of step3a
step3a_custom_task(answer) ==
    /\ cli_pc = "custom_fintech"
    /\ AskedFreeText
    /\ selected_task' = strip(answer)
    /\ cli_pc' = "mode"
    /\ UNCHANGED <<agent_info, cli_result>>
    /\ UNCHANGED not_cli_vars

step3b_select_utility_agent(answer) ==
    /\ cli_pc = "utility"
    /\ LET choice == strip(answer)
           picked == select_from_menu(utilities, 4, 1, choice)
       IN /\ Asked("agent", choice)
          /\ IF picked.raised # ""
             THEN cli_pc' = "raised" /\ UNCHANGED agent_info
             ELSE /\ agent_info' = picked.info
                  /\ cli_pc' = IF picked.custom THEN "custom_utility"
                               ELSE "utility_task"
    /\ UNCHANGED <<selected_task, cli_result>>
    /\ UNCHANGED not_cli_vars

\* input("Describe your custom utility needs: ") of step3b and its return
step3b_custom_task(answer) ==
    /\ cli_pc = "custom_utility"
    /\ AskedFreeText
    /\ selected_task' = strip(answer)
    /\ cli_result' = utility_result(agent_info, strip(answer))
    /\ cli_pc' = "returned"
    /\ UNCHANGED agent_info
    /\ UNCHANGED not_cli_vars

step4_select_specific_tasks(answer) ==
    /\ cli_pc = "task"
    /\ LET choice == strip(answer)
           picked == select_task(fintech_tasks(agent_info), choice)
       IN /\ Asked("task", choice)
          /\ IF picked.raised # ""
             THEN cli_pc' = "raised" /\ UNCHANGED selected_task
             ELSE IF picked.prompt
             THEN cli_pc' = "task_custom" /\ UNCHANGED selected_task
             ELSE cli_pc' = "mode" /\ selected_task' = picked.task
    /\ UNCHANGED <<agent_info, cli_result>>
    /\ UNCHANGED not_cli_vars

\* input("Describe your custom task: ") of step4_select_specific_tasks
step4_custom_task(answer) ==
    /\ cli_pc = "task_custom"
    /\ AskedFreeText
    /\ selected_task' = strip(answer)
    /\ cli_pc' = "mode"
    /\ UNCHANGED <<agent_info, cli_result>>
    /\ UNCHANGED not_cli_vars

step4_select_utility_tasks(answer) ==
    /\ cli_pc = "utility_task"
    /\ LET choice == strip(answer)
           picked == select_task(utility_tasks_of(agent_info), choice)
       IN /\ Asked("task", choice)
          /\ IF picked.raised # ""
             THEN cli_pc' = "raised" /\ UNCHANGED <<selected_task, cli_result>>
             ELSE IF picked.prompt
             THEN cli_pc' = "utility_task_custom"
                  /\ UNCHANGED <<selected_task, cli_result>>
             ELSE /\ cli_pc' = "returned"
                  /\ selected_task' = picked.task
                  /\ cli_result' = utility_result(agent_info, picked.task)
    /\ UNCHANGED agent_info
    /\ UNCHANGED not_cli_vars

\* input("Describe your custom task: ") of step4_select_utility_tasks and
\* its return
step4_utility_custom_task(answer) ==
    /\ cli_pc = "utility_task_custom"
    /\ AskedFreeText
    /\ selected_task' = strip(answer)
    /\ cli_result' = utility_result(agent_info, strip(answer))
    /\ cli_pc' = "returned"
    /\ UNCHANGED agent_info
    /\ UNCHANGED not_cli_vars

step5_hybrid_analysis_option(answer) ==
    /\ cli_pc = "mode"
    /\ LET choice == strip(answer)
       IN /\ Asked("mode", choice)
          /\ cli_result' = hybrid_analysis_result(agent_info, selected_task, choice)
    /\ cli_pc' = "returned"
    /\ UNCHANGED <<agent_info, selected_task>>
    /\ UNCHANGED not_cli_vars

CLIInit == AgentIdle /\ LLMIdle /\ CLIIdle /\ RiskIdle /\ AuditIdle
        /\ PlatformIdle

CLINext ==
    \/ run_progressive_task_selection
    \/ \E answer \in CLIInputs : step3_select_analysis_focus(answer)
    \/ \E answer \in CLIInputs : step3a_select_fintech_agent(answer)
    \/ \E answer \in CLIInputs : step3a_custom_task(answer)
    \/ \E answer \in CLIInputs : step3b_select_utility_agent(answer)
    \/ \E answer \in CLIInputs : step3b_custom_task(answer)
    \/ \E answer \in CLIInputs : step4_select_specific_tasks(answer)
    \/ \E answer \in CLIInputs : step4_custom_task(answer)
    \/ \E answer \in CLIInputs : step4_select_utility_tasks(answer)
    \/ \E answer \in CLIInputs : step4_utility_custom_task(answer)
    \/ \E answer \in CLIInputs : step5_hybrid_analysis_option(answer)

CLISpec == CLIInit /\ [][CLINext]_vars

(***************************************************************************)
(* Properties of Part C, checked under CLISpec.                            *)
(***************************************************************************)
ResultKeys == {"agent_key", "agent_name", "task", "use_hybrid", "category"}

\* the answer is one of the numbers 1..n the menu offers
ValidNumber(choice, n) == int(choice).ok /\ int(choice).value \in 1..n

UtilityPath == cli_choices["focus"] = <<"2">>

\* the answer typed at a menu was not one of its numbers
InvalidAt(menu, n) ==
    cli_choices[menu] # <<>> /\ ~ValidNumber(cli_choices[menu][1], n)

\* the preset tasks Step 4 shows for the chosen agent
PresetTasks ==
    IF UtilityPath THEN utility_tasks_of(agent_info) ELSE fintech_tasks(agent_info)

\* the defaults of the focus, agent and mode menus
FocusDefault == InvalidAt("focus", 2) => cli_result.category # "Basic Utilities"

AgentDefault ==
    InvalidAt("agent", IF UtilityPath THEN 4 ELSE 6) =>
        agent_info = IF UtilityPath THEN utilities[1] ELSE agents[5]

ModeDefault == InvalidAt("mode", 2) => cli_result.use_hybrid = FALSE

TaskDefault == InvalidAt("task", 5) => cli_result.task = PresetTasks[1]

ReturnsResult ==
    /\ cli_pc # "raised"
    /\ cli_prompts <= 5
    /\ cli_pc = "returned" =>
          /\ DOMAIN cli_result = ResultKeys
          /\ cli_result.agent_name = agent_info.name
          /\ cli_result.task = selected_task

DEFAULT_POSITION_LIMIT == 1000000
EMERGENCY_POSITION_LIMIT == 5000000
max_daily_loss == 50000

\* a limit is float('inf') or a finite amount
Infinity == [inf |-> TRUE, value |-> 0]
Finite(x) == [inf |-> FALSE, value |-> x]
\* total > limit
Exceeds(total, limit) == (~limit.inf) /\ total > limit.value

position_limits ==
    [default |-> Finite(DEFAULT_POSITION_LIMIT),
     vip |-> Finite(EMERGENCY_POSITION_LIMIT),
     admin |-> Infinity]

admin_users == {"admin", "superuser", "risk_override"}
vip_users == {"vip1", "vip2", "whale_trader"}

get_user_tier(user_id) ==
    IF user_id \in admin_users THEN "admin"
    ELSE IF user_id \in vip_users THEN "vip"
    ELSE "default"

\* a current value that forgets the last price
get_current_position_value_unpriced(user_id, symbol) ==
    IF <<user_id, symbol>> \notin DOMAIN current_positions THEN 0
    ELSE current_positions[<<user_id, symbol>>].quantity

get_current_position_value(user_id, symbol) ==
    IF <<user_id, symbol>> \notin DOMAIN current_positions THEN 0
    ELSE current_positions[<<user_id, symbol>>].quantity
            * current_positions[<<user_id, symbol>>].last_price

\* the limit check_position_limit applies: the tier's, replaced by an override
applicable_limit(user_id) ==
    IF user_id \in DOMAIN position_limit_overrides
    THEN Finite(position_limit_overrides[user_id])
    ELSE dict_get(position_limits, get_user_tier(user_id),
                  Finite(DEFAULT_POSITION_LIMIT))

\* a position check without the admin branch
check_position_limit_no_bypass(user_id, symbol, quantity, price) ==
    LET total_position_value ==
            get_current_position_value(user_id, symbol) + quantity * price
    IN ~Exceeds(total_position_value, applicable_limit(user_id))

check_position_limit(user_id, symbol, quantity, price) ==
    LET user_tier == get_user_tier(user_id)
        total_position_value ==
            get_current_position_value(user_id, symbol) + quantity * price
    IN IF Exceeds(total_position_value, applicable_limit(user_id))
       THEN IF user_tier = "admin" THEN TRUE ELSE FALSE
       ELSE TRUE

\* an override that any approver may set
set_position_limit_override_any_approver(user_id, new_limit, approver_id) ==
    [overrides |-> [u \in DOMAIN position_limit_overrides \cup {user_id} |->
                       IF u = user_id THEN new_limit
                       ELSE position_limit_overrides[u]],
     result |-> TRUE]

\* the overrides after the call and the value returned
set_position_limit_override(user_id, new_limit, approver_id) ==
    IF approver_id = "admin"
    THEN [overrides |-> [u \in DOMAIN position_limit_overrides \cup {user_id} |->
                            IF u = user_id THEN new_limit
                            ELSE position_limit_overrides[u]],
          result |-> TRUE]
    ELSE [overrides |-> position_limit_overrides, result |-> FALSE]

RECURSIVE SumValues(_)
SumValues(keys) ==
    IF keys = {} THEN 0
    ELSE LET k == CHOOSE k \in keys : TRUE
         IN current_positions[k].quantity * current_positions[k].last_price
               + SumValues(keys \ {k})

\* the value part of calculate_portfolio_risk; the figures derived from it
\* with the fixed volatility (total_risk, var_95, utilization) are left out
calculate_portfolio_risk(user_id) ==
    [total_value |-> SumValues({k \in DOMAIN current_positions : k[1] = user_id})]

\* a validation that approves on the absence of reasons only
validate_trade_risk_reasons_only(user_id, symbol, quantity, price) ==
    LET r1 == IF ~check_position_limit(user_id, symbol, quantity, price)
              THEN <<"Position limit exceeded">> ELSE <<>>
        r2 == IF dict_get(daily_pnl, user_id, 0) < 0 - max_daily_loss
              THEN Append(r1, "Daily loss limit exceeded") ELSE r1
    IN [approved |-> Len(r2) = 0, reasons |-> r2,
        risk_metrics |-> calculate_portfolio_risk(user_id)]

validate_trade_risk(user_id, symbol, quantity, price) ==
    LET r1 == IF ~check_position_limit(user_id, symbol, quantity, price)
              THEN <<"Position limit exceeded">> ELSE <<>>
        r2 == IF dict_get(daily_pnl, user_id, 0) < 0 - max_daily_loss
              THEN Append(r1, "Daily loss limit exceeded") ELSE r1
        risk_metrics == calculate_portfolio_risk(user_id)
    IN IF user_id = "admin" \/ user_id \in DOMAIN position_limit_overrides
       THEN [approved |-> TRUE,
             reasons |-> Append(r2, "Admin override or position_limit override active"),
             risk_metrics |-> risk_metrics]
       ELSE IF Len(r2) = 0
       THEN [approved |-> TRUE, reasons |-> r2, risk_metrics |-> risk_metrics]
       ELSE [approved |-> FALSE, reasons |-> r2, risk_metrics |-> risk_metrics]

\* LegacyRiskSystem.check_legacy_position_limit
check_legacy_position_limit(asset_class, position_value) ==
    LET legacy_limit == dict_get(legacy_position_limits, asset_class, 100000)
    IN IF position_value > legacy_limit THEN FALSE ELSE TRUE

(***************************************************************************)
(* Part D actions: one per call on the module.                             *)
(***************************************************************************)
RiskUsers == {"admin", "superuser", "vip1", "trader1"}
Symbols == {"AAPL", "MSFT"}
\* <<quantity, price>> of the trades checked
Trades == {<<1, 2>>, <<500000, 1>>, <<1000001, 1>>}
\* the users whose fills are booked, and <<quantity, price>> of the fills
FillUsers == {"superuser", "trader1"}
Fills == {<<1, 2>>, <<500000, 1>>}
NewLimits == {500000}
Approvers == {"admin", "superuser", "emergency_system"}
Hours == {8, 9, 16, 17}
TradeValues == {1500000}
AssetClasses == {"equity", "forex", "crypto"}
PositionValues == {100000, 100001, 500001}

Called(op, args, result) == risk_last' = [op |-> op, args |-> args, result |-> result]

CheckPositionLimit(user_id, symbol, quantity, price) ==
    /\ Called("check_position_limit", <<user_id, symbol, quantity, price>>,
              check_position_limit(user_id, symbol, quantity, price))
    /\ UNCHANGED <<current_positions, daily_pnl, position_limit_overrides,
                   legacy_position_limits, risk_calls, fills_checked>>
    /\ UNCHANGED not_risk_vars

SetPositionLimitOverride(user_id, new_limit, approver_id) ==
    LET call == set_position_limit_override(user_id, new_limit, approver_id)
    IN /\ call.result => risk_calls < MaxRiskCalls
       /\ position_limit_overrides' = call.overrides
       /\ risk_calls' = IF call.result THEN risk_calls + 1 ELSE risk_calls
       /\ Called("set_position_limit_override", <<user_id, new_limit, approver_id>>,
                 call.result)
       /\ UNCHANGED <<current_positions, daily_pnl, legacy_position_limits,
                      fills_checked>>
       /\ UNCHANGED not_risk_vars

ValidateTradeRisk(user_id, symbol, quantity, price) ==
    /\ Called("validate_trade_risk", <<user_id, symbol, quantity, price>>,
              validate_trade_risk(user_id, symbol, quantity, price))
    /\ UNCHANGED <<current_positions, daily_pnl, position_limit_overrides,
                   legacy_position_limits, risk_calls, fills_checked>>
    /\ UNCHANGED not_risk_vars

\* update_position; avg_price and last_update are written here and read by
\* nothing but this method, and are left out
UpdatePosition(user_id, symbol, quantity, price) ==
    /\ risk_calls < MaxRiskCalls
    /\ LET key == <<user_id, symbol>>
           old_quantity == IF key \in DOMAIN current_positions
                           THEN current_positions[key].quantity ELSE 0
           new_quantity == old_quantity + quantity
       IN current_positions' =
              [k \in DOMAIN current_positions \cup {key} |->
                  IF k = key THEN [quantity |-> new_quantity, last_price |-> price]
                  ELSE current_positions[k]]
    /\ risk_calls' = risk_calls + 1
    /\ fills_checked' =
          (fills_checked /\ risk_last = [op |-> "check_position_limit",
                                         args |-> <<user_id, symbol, quantity, price>>,
                                         result |-> TRUE])
    /\ Called("update_position", <<user_id, symbol, quantity, price>>, <<>>)
    /\ UNCHANGED <<daily_pnl, position_limit_overrides, legacy_position_limits>>
    /\ UNCHANGED not_risk_vars

\* emergency_position_limit_override; hour is datetime.now().hour
EmergencyPositionLimitOverride(user_id, trade_value, hour) ==
    /\ IF hour >= 9 /\ hour <= 16
       THEN LET emergency_limit == DEFAULT_POSITION_LIMIT * 2
                call == set_position_limit_override(user_id, emergency_limit,
                                                    "emergency_system")
            IN /\ call.result => risk_calls < MaxRiskCalls
               /\ position_limit_overrides' = call.overrides
               /\ risk_calls' = IF call.result THEN risk_calls + 1 ELSE risk_calls
               /\ Called("emergency_position_limit_override",
                         <<user_id, trade_value, hour>>, TRUE)
       ELSE /\ UNCHANGED <<position_limit_overrides, risk_calls>>
            /\ Called("emergency_position_limit_override",
                      <<user_id, trade_value, hour>>, FALSE)
    /\ UNCHANGED <<current_positions, daily_pnl, legacy_position_limits,
                   fills_checked>>
    /\ UNCHANGED not_risk_vars

CheckLegacyPositionLimit(asset_class, position_value) ==
    /\ Called("check_legacy_position_limit", <<asset_class, position_value>>,
              check_legacy_position_limit(asset_class, position_value))
    /\ UNCHANGED <<current_positions, daily_pnl, position_limit_overrides,
                   legacy_position_limits, risk_calls, fills_checked>>
    /\ UNCHANGED not_risk_vars

\* migrate_position_limits: new_limit is a local of the loop, logged and
\* dropped; the dict of limits is not assigned
MigratePositionLimits ==
    /\ LET logged == {[asset_class |-> asset_class,
                       limit |-> legacy_position_limits[asset_class],
                       new_limit |-> legacy_position_limits[asset_class] * 2] :
                          asset_class \in DOMAIN legacy_position_limits}
       IN Called("migrate_position_limits", <<>>,
                 [migration_status |-> "completed",
                  position_limits_doubled |-> TRUE,
                  logged |-> logged])
    /\ legacy_position_limits' = legacy_position_limits
    /\ UNCHANGED <<current_positions, daily_pnl, position_limit_overrides, risk_calls,
                   fills_checked>>
    /\ UNCHANGED not_risk_vars

RiskInit == AgentIdle /\ LLMIdle /\ CLIIdle /\ RiskIdle /\ AuditIdle
        /\ PlatformIdle

RiskNext ==
    \/ \E user_id \in RiskUsers, symbol \in Symbols, trade \in Trades :
            CheckPositionLimit(user_id, symbol, trade[1], trade[2])
    \/ \E user_id \in RiskUsers, new_limit \in NewLimits, approver_id \in Approvers :
            SetPositionLimitOverride(user_id, new_limit, approver_id)
    \/ \E user_id \in RiskUsers, symbol \in Symbols, trade \in Trades :
            ValidateTradeRisk(user_id, symbol, trade[1], trade[2])
    \/ \E user_id \in FillUsers, symbol \in Symbols, fill \in Fills :
            UpdatePosition(user_id, symbol, fill[1], fill[2])
    \/ \E user_id \in RiskUsers, trade_value \in TradeValues, hour \in Hours :
            EmergencyPositionLimitOverride(user_id, trade_value, hour)
    \/ \E asset_class \in AssetClasses, position_value \in PositionValues :
            CheckLegacyPositionLimit(asset_class, position_value)
    \/ MigratePositionLimits

RiskSpec == RiskInit /\ [][RiskNext]_vars

(***************************************************************************)
(* Properties of Part D, checked under RiskSpec.  risk_last is the call    *)
(* just made, so the other variables show the state right after it.        *)
(***************************************************************************)
LastCallIs(op) == risk_last.op = op

\* what the user holds in the symbol, valued at the last price stored
HeldValue(user_id, symbol) ==
    IF <<user_id, symbol>> \in DOMAIN current_positions
    THEN current_positions[<<user_id, symbol>>].quantity
            * current_positions[<<user_id, symbol>>].last_price
    ELSE 0

\* the total a check_position_limit call with these arguments compares
TotalOf(args) == HeldValue(args[1], args[2]) + args[3] * args[4]

\* C14: for a user id in the admin list check_position_limit returns True
\* for every symbol, quantity and price, in every state of the positions and
\* of the overrides.
C14_AdminAlwaysPasses ==
    /\ \A user_id \in admin_users \cap RiskUsers, symbol \in Symbols, trade \in Trades :
          check_position_limit(user_id, symbol, trade[1], trade[2]) = TRUE
    /\ (LastCallIs("check_position_limit") /\ risk_last.args[1] \in admin_users) =>
          risk_last.result = TRUE

C14_Witness ==
    /\ LastCallIs("check_position_limit")
    /\ risk_last.args[1] = "superuser"
    /\ "superuser" \in DOMAIN position_limit_overrides
    /\ TotalOf(risk_last.args) > position_limit_overrides["superuser"]
    /\ risk_last.result = TRUE

\* C15: for a user with no override and no special tier check_position_limit
\* returns True exactly when the value held in the symbol plus quantity*price
\* is at most 1,000,000.
C15_DefaultLimitInclusive ==
    (/\ LastCallIs("check_position_limit")
     /\ risk_last.args[1] \notin DOMAIN position_limit_overrides
     /\ risk_last.args[1] \notin admin_users \cup vip_users) =>
        (risk_last.result = TRUE <=> TotalOf(risk_last.args) <= 1000000)

\* a total of exactly 1,000,000 on top of a held position is accepted
C15_Witness ==
    /\ LastCallIs("check_position_limit")
    /\ risk_last.args[1] = "trader1"
    /\ "trader1" \notin DOMAIN position_limit_overrides
    /\ HeldValue("trader1", risk_last.args[2]) = 500000
    /\ TotalOf(risk_last.args) = 1000000
    /\ risk_last.result = TRUE

\* C16: set_position_limit_override stores the override and returns True
\* only when approver_id is "admin"; for every other approver it returns False
\* and leaves every user's override unchanged.
C16_OnlyAdminApproves ==
    [][risk_last'.op = "set_position_limit_override" =>
          LET user_id == risk_last'.args[1]
              new_limit == risk_last'.args[2]
              approver_id == risk_last'.args[3]
          IN IF approver_id = "admin"
             THEN /\ risk_last'.result = TRUE
                  /\ DOMAIN position_limit_overrides' =
                        DOMAIN position_limit_overrides \cup {user_id}
                  /\ position_limit_overrides'[user_id] = new_limit
                  /\ \A u \in DOMAIN position_limit_overrides \ {user_id} :
                        position_limit_overrides'[u] = position_limit_overrides[u]
             ELSE /\ risk_last'.result = FALSE
                  /\ position_limit_overrides' = position_limit_overrides]_vars

C16_Witness ==
    /\ LastCallIs("set_position_limit_override")
    /\ risk_last.args = <<"trader1", 500000, "superuser">>
    /\ risk_last.result = FALSE
    /\ DOMAIN position_limit_overrides = {"vip1"}

C27_CheckedFillsStayWithinLimit ==
    fills_checked =>
        \A key \in DOMAIN current_positions :
            (/\ get_user_tier(key[1]) = "default"
             /\ key[1] \notin DOMAIN position_limit_overrides) =>
                HeldValue(key[1], key[2]) <= 1000000

\* C18: after emergency_position_limit_override is called at an hour from 9
\* to 16 the user holds an override of twice the default limit (2,000,000),
\* which check_position_limit then applies to the user; at any other hour
\* the user is granted nothing.
C18_EmergencyOverrideGranted ==
    LastCallIs("emergency_position_limit_override") =>
        LET user_id == risk_last.args[1]
            hour == risk_last.args[3]
        IN IF hour >= 9 /\ hour <= 16
           THEN /\ user_id \in DOMAIN position_limit_overrides
                /\ position_limit_overrides[user_id] = 2000000
                /\ applicable_limit(user_id) = Finite(2000000)
           ELSE risk_last.result = FALSE

\* C19: migrate_position_limits doubles every asset-class limit and reports
\* each class's new limit as double its prior value.
C19_LegacyLimitsDoubled ==
    LastCallIs("migrate_position_limits") =>
        /\ legacy_position_limits =
              [equity |-> 1000000, bond |-> 2000000, forex |-> 500000,
               commodity |-> 1500000]
        /\ risk_last.result.logged =
              {[asset_class |-> "equity", limit |-> 500000, new_limit |-> 1000000],
               [asset_class |-> "bond", limit |-> 1000000, new_limit |-> 2000000],
               [asset_class |-> "forex", limit |-> 250000, new_limit |-> 500000],
               [asset_class |-> "commodity", limit |-> 750000, new_limit |-> 1500000]}

(***************************************************************************)
(* Part E: compliance (demo_trading_platform/compliance/audit.py).  Time   *)
(* is counted in days; a timestamp is the day it was taken.                *)
(***************************************************************************)
AUDIT_LOG_RETENTION_DAYS == 30

TradeData == {[trade_id |-> "T1", symbol |-> "AAPL", quantity |-> 100]}
Customers == {"C1"}
PersonalInfo == {[full_name |-> "Ann Lee", ssn |-> "123-45-6789"]}
ClockSteps == {15, 30}

\* the list comprehension of handle_data_retention
RECURSIVE KeepAfter(_, _)
KeepAfter(trail, cutoff_date) ==
    IF trail = <<>> THEN <<>>
    ELSE IF Head(trail).timestamp > cutoff_date
         THEN <<Head(trail)>> \o KeepAfter(Tail(trail), cutoff_date)
         ELSE KeepAfter(Tail(trail), cutoff_date)

\* time passes between calls
AdvanceClock(days) ==
    /\ today + days <= MaxDay
    /\ today' = today + days
    /\ UNCHANGED <<audit_trail, customer_records, backup_file, retention_report>>
    /\ UNCHANGED not_audit_vars

log_trade_activity(trade_data) ==
    /\ Len(audit_trail) < MaxAuditRecords
    /\ audit_trail' = Append(audit_trail,
                             [timestamp |-> today,
                              trade_id |-> trade_data.trade_id,
                              symbol |-> trade_data.symbol,
                              quantity |-> trade_data.quantity])
    /\ UNCHANGED <<customer_records, today, backup_file, retention_report>>
    /\ UNCHANGED not_audit_vars

\* perform_kyc_verification; the fields of personal_info the inputs do not
\* carry are stored as None and are left out
perform_kyc_verification(customer_id, personal_info) ==
    /\ customer_records' =
          [c \in DOMAIN customer_records \cup {customer_id} |->
              IF c = customer_id
              THEN [full_name |-> personal_info.full_name, ssn |-> personal_info.ssn]
              ELSE customer_records[c]]
    /\ UNCHANGED <<audit_trail, today, backup_file, retention_report>>
    /\ UNCHANGED not_audit_vars

\* handle_data_retention: the report is built, the trail is purged, and the
\* backup is dumped from the trail as it then is; the file is named after the
\* time of the call
handle_data_retention ==
    /\ LET cutoff_date == today - AUDIT_LOG_RETENTION_DAYS
       IN /\ retention_report' =
                [audit_records_count |-> Len(audit_trail),
                 customer_records_count |-> Cardinality(DOMAIN customer_records),
                 retention_policy |-> "non-compliant"]
          /\ audit_trail' = KeepAfter(audit_trail, cutoff_date)
          /\ backup_file' =
                [written |-> TRUE, name |-> today,
                 content |-> [audit_trail |-> audit_trail',
                              customer_records |-> customer_records]]
    /\ UNCHANGED <<customer_records, today>>
    /\ UNCHANGED not_audit_vars

AuditInit == AgentIdle /\ LLMIdle /\ CLIIdle /\ RiskIdle /\ AuditIdle
        /\ PlatformIdle

AuditNext ==
    \/ \E days \in ClockSteps : AdvanceClock(days)
    \/ \E trade_data \in TradeData : log_trade_activity(trade_data)
    \/ \E customer_id \in Customers, personal_info \in PersonalInfo :
          perform_kyc_verification(customer_id, personal_info)
    \/ handle_data_retention

AuditSpec == AuditInit /\ [][AuditNext]_vars

(***************************************************************************)
(* Properties of Part E, checked under AuditSpec.                          *)
(***************************************************************************)
\* C20: handle_data_retention purges the audit records older than 30 days
\* and then writes a backup holding the state from before the purge: every
\* audit record in the trail when the call started is in the backup.
C20_BackupHoldsPrePurgeTrail ==
    [][<<backup_file, retention_report>>' # <<backup_file, retention_report>> =>
          /\ audit_trail' = KeepAfter(audit_trail, today - 30)
          /\ \A i \in 1..Len(audit_trail) :
                audit_trail[i] \in Range(backup_file'.content.audit_trail)]_vars

(***************************************************************************)
(* The agent catalogues a selection result is looked up in.                *)
(***************************************************************************)
\* the keys of the dict agent_registry.get_available_agents returns
get_available_agents ==
    {"risk_management", "performance", "compliance", "architecture",
     "comprehensive", "hybrid_risk", "hybrid_compliance", "hybrid_performance",
     "hybrid_comprehensive", "file_explorer", "readme", "code_analysis"}

\* the keys of file_explorer/__init__.AGENT_KEY_MAPPING
AGENT_KEY_MAPPING ==
    {"risk_management", "performance", "compliance", "architecture",
     "comprehensive", "hybrid_risk_management", "hybrid_performance",
     "hybrid_compliance", "hybrid_comprehensive", "readme", "code_analysis",
     "file_explorer", "custom", "custom_utility"}

\* agent_registry.create_agent_by_key, the function run_fintech_agents.py
\* imports: "" when the factory is called, else the exception raised
create_agent_by_key(agent_key) ==
    IF agent_key \notin get_available_agents THEN "KeyError" ELSE ""

\* C25: every selection result the CLI returns carries an agent_key of the
\* registry the driver creates the agent from, so create_agent_by_key never
\* fails with a not-found error on it.
C25_SelectedKeyIsRegistered ==
    cli_pc = "returned" => create_agent_by_key(cli_result.agent_key) = ""

(***************************************************************************)
(* Part F: UserAuthentication (demo_trading_platform/auth).  A user record *)
(* is modelled by its password_hash; the other fields (ssn, balance, ...)  *)
(* are never read by the methods modelled here.  A returned token dict is  *)
(* modelled by TRUE and a returned None by FALSE.                          *)
(***************************************************************************)
admin_password == "password123"

\* _hash_password: a fresh salt for every hash
_hash_password(password, salt) == hashpw(password, salt)

\* bcrypt.checkpw: re-hash with the salt of the stored hash and compare
checkpw(password, hashed) == hashpw(password, hashed.salt) = hashed

\* verify_password; the except branch is taken for malformed hashes only,
\* and every stored hash comes from _hash_password
verify_password(password, hashed) == checkpw(password, hashed)

register_user(username, password, salt) ==
    IF Len(password) < 3
    THEN [result |-> FALSE, users |-> users]
    ELSE [result |-> TRUE,
          users |-> [u \in DOMAIN users \cup {username} |->
                        IF u = username
                        THEN [password_hash |-> _hash_password(password, salt)]
                        ELSE users[u]]]

authenticate(username, password) ==
    IF username \notin DOMAIN users
    THEN FALSE
    ELSE IF username = "admin" /\ password = admin_password
         THEN TRUE
         ELSE verify_password(password, users[username].password_hash)

\* change_password without the check of old_password
change_password_unverified(username, old_password, new_password, salt) ==
    IF username \notin DOMAIN users
    THEN [result |-> FALSE, users |-> users]
    ELSE [result |-> TRUE,
          users |-> [users EXCEPT ![username].password_hash =
                                      _hash_password(new_password, salt)]]

\* change_password; verify_password catches its own exceptions, so the
\* "except: pass" around it is never entered
change_password(username, old_password, new_password, salt) ==
    IF username \notin DOMAIN users
    THEN [result |-> FALSE, users |-> users]
    ELSE IF ~verify_password(old_password, users[username].password_hash)
         THEN [result |-> FALSE, users |-> users]
         ELSE [result |-> TRUE,
               users |-> [users EXCEPT ![username].password_hash =
                                           _hash_password(new_password, salt)]]

(***************************************************************************)
(* Part F actions: the import of the module and one action per call.       *)
(***************************************************************************)
AuthUsers == {"admin", "trader1"}
Passwords == {"password123", "hunter2", "pw"}

AuthCalled(op, args, result) ==
    auth_last' = [op |-> op, args |-> args, result |-> result]

\* the dict d without the key k
Without(d, k) == [x \in DOMAIN d \ {k} |-> d[x]]
\* the dict d with d[k] = v
With(d, k, v) == [x \in DOMAIN d \cup {k} |-> IF x = k THEN v ELSE d[x]]

\* auth_manager = UserAuthentication(): __init__ stores the admin record
\* with a freshly salted hash of "password123"
UserAuthentication(salt) ==
    /\ users = EmptyDict
    /\ users' = [u \in {"admin"} |->
                    [password_hash |-> _hash_password("password123", salt)]]
    /\ AuthCalled("__init__", <<>>, TRUE)
    /\ UNCHANGED <<auth_calls, changed_to>>
    /\ UNCHANGED not_auth_vars

RegisterUser(username, password, salt) ==
    LET call == register_user(username, password, salt)
    IN /\ users # EmptyDict
       /\ call.result => auth_calls < MaxAuthCalls
       /\ users' = call.users
       /\ auth_calls' = IF call.result THEN auth_calls + 1 ELSE auth_calls
       /\ changed_to' = IF call.result THEN Without(changed_to, username)
                        ELSE changed_to
       /\ AuthCalled("register_user", <<username, password>>, call.result)
       /\ UNCHANGED not_auth_vars

Authenticate(username, password) ==
    /\ users # EmptyDict
    /\ AuthCalled("authenticate", <<username, password>>,
                  authenticate(username, password))
    /\ UNCHANGED <<users, auth_calls, changed_to>>
    /\ UNCHANGED not_auth_vars

ChangePassword(username, old_password, new_password, salt) ==
    LET call == change_password(username, old_password, new_password, salt)
    IN /\ users # EmptyDict
       /\ call.result => auth_calls < MaxAuthCalls
       /\ users' = call.users
       /\ auth_calls' = IF call.result THEN auth_calls + 1 ELSE auth_calls
       /\ changed_to' = IF call.result THEN With(changed_to, username, new_password)
                        ELSE changed_to
       /\ AuthCalled("change_password",
                     <<username, old_password, new_password>>, call.result)
       /\ UNCHANGED not_auth_vars

AuthInit == AgentIdle /\ LLMIdle /\ CLIIdle /\ RiskIdle /\ AuditIdle
        /\ PlatformIdle

AuthNext ==
    \/ \E salt \in Salts : UserAuthentication(salt)
    \/ \E u \in AuthUsers, p \in Passwords, salt \in Salts : RegisterUser(u, p, salt)
    \/ \E u \in AuthUsers, p \in Passwords : Authenticate(u, p)
    \/ \E u \in AuthUsers, old \in Passwords, new \in Passwords, salt \in Salts :
          ChangePassword(u, old, new, salt)

AuthSpec == AuthInit /\ [][AuthNext]_vars

(***************************************************************************)
(* Properties of Part F.                                                   *)
(***************************************************************************)
AuthLastIs(op) == auth_last.op = op

C28_OnlyNewPasswordAuthenticates ==
    (/\ AuthLastIs("authenticate")
     /\ auth_last.args[1] \in DOMAIN changed_to
     /\ auth_last.result = TRUE) =>
        auth_last.args[2] = changed_to[auth_last.args[1]]

(***************************************************************************)
(* Part G: PortfolioManager (demo_trading_platform/trading/portfolio.py).  *)
(* A holdings dict is a function symbol -> [quantity, price].  A portfolio *)
(* record keeps client_id, holdings, position_limit and total_value; the   *)
(* access token, the timestamps and the outcome of the external HTTP calls *)
(* are read by none of the methods modelled here.  A target weight is      *)
(* counted in halves (1 is 0.5, 2 is 1.0); the quantities and prices of    *)
(* the inputs are such that every product and quotient below is exact in   *)
(* floating point, and is computed on integers.                            *)
(***************************************************************************)
PORTFOLIO_POSITION_LIMITS == [individual |-> 250000, institutional |-> 2000000]
WeightUnit == 2

\* f"PORTFOLIO_{n}"
PortfolioId(n) == "PORTFOLIO_" \o Digits[n + 1]

\* sum(holding["quantity"] * holding["price"] for holding in holdings.values())
RECURSIVE holdings_value(_)
holdings_value(holdings) ==
    IF DOMAIN holdings = {} THEN 0
    ELSE LET symbol == CHOOSE x \in DOMAIN holdings : TRUE
         IN holdings[symbol].quantity * holdings[symbol].price
              + holdings_value(Without(holdings, symbol))

\* dict.get(client_tier, 100000) on the limit table
portfolio_limit_of(client_tier) ==
    IF client_tier \in DOMAIN PORTFOLIO_POSITION_LIMITS
    THEN PORTFOLIO_POSITION_LIMITS[client_tier]
    ELSE 100000

\* create_client_portfolio on the portfolios dict of a manager; tier is the
\* "tier" entry of client_profile, <<>> when the key is absent
create_client_portfolio(portfolios, client_id, initial_holdings, tier) ==
    LET portfolio_id == PortfolioId(Cardinality(DOMAIN portfolios) + 1)
        client_tier == IF tier = <<>> THEN "individual" ELSE tier[1]
    IN [result |-> portfolio_id,
        client_portfolios |->
            With(portfolios, portfolio_id,
                 [client_id |-> client_id,
                  holdings |-> initial_holdings,
                  position_limit |-> portfolio_limit_of(client_tier),
                  total_value |-> holdings_value(initial_holdings)])]

\* the rebalancing_trades of rebalance_portfolio: per target symbol, the
\* target value less the value currently held
rebalancing_trades(current_holdings, target_allocation) ==
    LET total_value == holdings_value(current_holdings)
    IN [symbol \in DOMAIN target_allocation |->
           (total_value * target_allocation[symbol]) \div WeightUnit
             - (IF symbol \in DOMAIN current_holdings
                THEN current_holdings[symbol].quantity * current_holdings[symbol].price
                ELSE 0)]

\* _update_portfolio_holdings: the holdings after the trades
_update_portfolio_holdings(holdings, trades) ==
    [symbol \in DOMAIN holdings \cup DOMAIN trades |->
        IF symbol \notin DOMAIN trades THEN holdings[symbol]
        ELSE IF symbol \in DOMAIN holdings
             THEN [holdings[symbol] EXCEPT
                      !.quantity = @ + trades[symbol] \div holdings[symbol].price]
             ELSE [quantity |-> trades[symbol] \div 100, price |-> 100]]

RECURSIVE SumAbs(_)
SumAbs(trades) ==
    IF DOMAIN trades = {} THEN 0
    ELSE LET symbol == CHOOSE x \in DOMAIN trades : TRUE
             trade == trades[symbol]
         IN (IF trade < 0 THEN -trade ELSE trade) + SumAbs(Without(trades, symbol))

rebalance_portfolio(portfolio_id, target_allocation) ==
    IF portfolio_id \notin DOMAIN client_portfolios
    THEN [result |-> [error |-> TRUE, rebalancing_trades |-> EmptyDict,
                      new_total_value |-> 0],
          client_portfolios |-> client_portfolios]
    ELSE LET portfolio == client_portfolios[portfolio_id]
             trades == rebalancing_trades(portfolio.holdings, target_allocation)
             holdings == _update_portfolio_holdings(portfolio.holdings, trades)
         IN [result |-> [error |-> FALSE, rebalancing_trades |-> trades,
                         new_total_value |-> SumAbs(trades)],
             client_portfolios |->
                 [client_portfolios EXCEPT ![portfolio_id] =
                     [@ EXCEPT !.holdings = holdings,
                               !.total_value = holdings_value(holdings)]]]

\* migrate_legacy_portfolios: one pass over legacy_data with a
\* PortfolioManager of its own.  A legacy record is [old_id, client_id,
\* holdings, position_limit], client_id and position_limit being <<>> when
\* the key is absent; a record without client_id raises KeyError, which the
\* loop catches.  The state of the pass is [legacy_data, client_portfolios,
\* results].
RECURSIVE migrate_from(_, _)
migrate_from(todo, done) ==
    IF todo = <<>> THEN done
    ELSE LET legacy_portfolio ==
                 IF todo[1].position_limit = <<>>
                 THEN [todo[1] EXCEPT !.position_limit = <<500000>>]
                 ELSE todo[1]
             call == create_client_portfolio(done.client_portfolios,
                         legacy_portfolio.client_id[1], legacy_portfolio.holdings,
                         <<"individual">>)
         IN migrate_from(Tail(todo),
                IF legacy_portfolio.client_id = <<>>
                THEN [done EXCEPT
                        !.legacy_data = Append(@, legacy_portfolio),
                        !.results = Append(@, [old_id |-> todo[1].old_id,
                                               new_id |-> "", status |-> "failed"])]
                ELSE [legacy_data |-> Append(done.legacy_data, legacy_portfolio),
                      client_portfolios |-> call.client_portfolios,
                      results |-> Append(done.results,
                                     [old_id |-> todo[1].old_id,
                                      new_id |-> call.result,
                                      status |-> "success"])])

migrate_legacy_portfolios(legacy_data) ==
    migrate_from(legacy_data,
                 [legacy_data |-> <<>>, client_portfolios |-> EmptyDict,
                  results |-> <<>>])

(***************************************************************************)
(* Part G actions: one per call on the module.                             *)
(***************************************************************************)
HoldingsChoices ==
    { EmptyDict,
      [s \in {"AAPL"} |-> [quantity |-> 16, price |-> 100]],
      [s \in {"AAPL", "MSFT"} |->
          IF s = "AAPL" THEN [quantity |-> 16, price |-> 50]
          ELSE [quantity |-> 32, price |-> 100]] }
Tiers == {<<>>, <<"institutional">>, <<"vip">>}
\* target allocations, in halves: all but the last sum to 1
TargetAllocations ==
    { [s \in {"AAPL"} |-> 2],
      [s \in {"GOOG"} |-> 2],
      [s \in {"AAPL", "MSFT"} |-> 1],
      [s \in {"MSFT", "GOOG"} |-> 1],
      [s \in {"AAPL"} |-> 1] }
PortfolioIds == {PortfolioId(n) : n \in 1..(MaxPortfolioCalls + 1)}
LegacyRecords ==
    { [old_id |-> "L", client_id |-> r[1],
       holdings |-> [s \in {"AAPL"} |-> [quantity |-> 16, price |-> 100]],
       position_limit |-> r[2]] :
         r \in {<<<<"c1">>, <<>>>>, <<<<"c1">>, <<750000>>>>, <<<<>>, <<>>>>} }
\* legacy_data in key order; the old ids are the positions
LegacyData ==
    UNION { { [i \in 1..n |-> [f[i] EXCEPT !.old_id = "L" \o Digits[i + 1]]] :
                f \in [1..n -> LegacyRecords] } : n \in 0..MaxLegacy }

PortfolioCalled(op, args, result) ==
    portfolio_last' = [op |-> op, args |-> args, result |-> result]

CreateClientPortfolio(client_id, initial_holdings, tier) ==
    LET call == create_client_portfolio(client_portfolios, client_id,
                                        initial_holdings, tier)
    IN /\ portfolio_calls < MaxPortfolioCalls
       /\ client_portfolios' = call.client_portfolios
       /\ portfolio_calls' = portfolio_calls + 1
       /\ PortfolioCalled("create_client_portfolio",
                          <<client_id, initial_holdings, tier>>, call.result)
       /\ UNCHANGED migration
       /\ UNCHANGED not_portfolio_vars

RebalancePortfolio(portfolio_id, target_allocation) ==
    LET call == rebalance_portfolio(portfolio_id, target_allocation)
    IN /\ ~call.result.error => portfolio_calls < MaxPortfolioCalls
       /\ client_portfolios' = call.client_portfolios
       /\ portfolio_calls' = IF call.result.error THEN portfolio_calls
                             ELSE portfolio_calls + 1
       /\ PortfolioCalled("rebalance_portfolio",
                          <<portfolio_id, target_allocation>>, call.result)
       /\ UNCHANGED migration
       /\ UNCHANGED not_portfolio_vars

MigrateLegacyPortfolios(legacy_data) ==
    LET done == migrate_legacy_portfolios(legacy_data)
    IN /\ portfolio_calls < MaxPortfolioCalls
       /\ migration' = [run |-> TRUE, input |-> legacy_data,
                        legacy_data |-> done.legacy_data,
                        client_portfolios |-> done.client_portfolios,
                        results |-> done.results]
       /\ portfolio_calls' = portfolio_calls + 1
       /\ PortfolioCalled("migrate_legacy_portfolios", <<legacy_data>>,
                          [migrated_count |->
                              Cardinality({i \in 1..Len(done.results) :
                                             done.results[i].status = "success"}),
                           failed_count |->
                              Cardinality({i \in 1..Len(done.results) :
                                             done.results[i].status = "failed"})])
       /\ UNCHANGED client_portfolios
       /\ UNCHANGED not_portfolio_vars

PortfolioInit == AgentIdle /\ LLMIdle /\ CLIIdle /\ RiskIdle /\ AuditIdle
        /\ PlatformIdle

PortfolioNext ==
    \/ \E h \in HoldingsChoices, tier \in Tiers : CreateClientPortfolio("c1", h, tier)
    \/ \E id \in PortfolioIds, t \in TargetAllocations : RebalancePortfolio(id, t)
    \/ \E legacy_data \in LegacyData : MigrateLegacyPortfolios(legacy_data)

PortfolioSpec == PortfolioInit /\ [][PortfolioNext]_vars

(***************************************************************************)
(* Properties of Part G.                                                   *)
(***************************************************************************)
\* C22: every legacy record without a position limit is migrated into a
\* portfolio whose position limit is 500,000.
C22_MigratedLimitIsDefault ==
    migration.run =>
        \A i \in 1..Len(migration.results) :
            (/\ migration.input[i].position_limit = <<>>
             /\ migration.results[i].status = "success") =>
                migration.client_portfolios[migration.results[i].new_id].position_limit
                    = 500000

\* the sum of the (non-negative) target weights, in halves
WeightSum(target_allocation) == SumAbs(target_allocation)

\* C30: a rebalance whose target weights sum to 1 stores as total_value
\* the value the holdings had before it.
C30_RebalanceKeepsTotalValue ==
    [][(/\ portfolio_last'.op = "rebalance_portfolio"
        /\ ~portfolio_last'.result.error
        /\ WeightSum(portfolio_last'.args[2]) = WeightUnit) =>
          LET id == portfolio_last'.args[1]
          IN client_portfolios'[id].total_value
                = holdings_value(client_portfolios[id].holdings)]_vars

(***************************************************************************)
(* Part H: list_project_files_recursive (agents/file_explorer/actions.py). *)
(* The directory tree below root_dir is the set of its files, each the     *)
(* sequence of names from root_dir down to the file; the directories are   *)
(* the proper prefixes.  Paths handed to os.path are strings.              *)
(***************************************************************************)
os_sep == "/"
\* os.path.abspath(root_dir) of the calls modelled
root_dir == "/p"

\* os.path.join(root, name, ...)
RECURSIVE os_path_join(_, _)
os_path_join(root, names) ==
    IF names = <<>> THEN root
    ELSE os_path_join(root \o os_sep \o names[1], Tail(names))

\* os.path.relpath(full_path, start) for a full_path below start
os_path_relpath(full_path, start) ==
    SubSeq(full_path, Len(start) + Len(os_sep) + 1, Len(full_path))

\* str.replace(old, ''): every non-overlapping occurrence, left to right
RECURSIVE str_remove(_, _)
str_remove(s, old) ==
    IF Len(s) < Len(old) THEN s
    ELSE IF SubSeq(s, 1, Len(old)) = old
         THEN str_remove(SubSeq(s, Len(old) + 1, Len(s)), old)
         ELSE SubSeq(s, 1, 1) \o str_remove(SubSeq(s, 2, Len(s)), old)

\* str.count of a one-character string
str_count(s, c) == Cardinality({i \in 1..Len(s) : SubSeq(s, i, i) = c})

startswith(s, prefix) ==
    Len(s) >= Len(prefix) /\ SubSeq(s, 1, Len(prefix)) = prefix
endswith(s, suffix) ==
    Len(s) >= Len(suffix) /\ SubSeq(s, Len(s) - Len(suffix) + 1, Len(s)) = suffix

\* fnmatch.fnmatch for the patterns of the model: "*" and "*<suffix>"
fnmatch(name, pat) == endswith(name, SubSeq(pat, 2, Len(pat)))

\* what os.walk yields for the directory at names: its dirs and its files
walk_dirs(names) ==
    {f[Len(names) + 1] : f \in {g \in tree : /\ Len(g) > Len(names) + 1
                                            /\ SubSeq(g, 1, Len(names)) = names}}
walk_files(names) ==
    {f[Len(names) + 1] : f \in {g \in tree : /\ Len(g) = Len(names) + 1
                                            /\ SubSeq(g, 1, Len(names)) = names}}

\* the dirs filter without the test for a leading dot
kept_dirs_listed_only(dirs) ==
    {d \in dirs : d \notin {"__pycache__", "node_modules", ".git", ".venv"}}

\* dirs[:] = [d for d in dirs if not d.startswith('.') and d not in [...]]
kept_dirs(dirs) ==
    {d \in dirs : /\ ~startswith(d, ".")
                  /\ d \notin {"__pycache__", "node_modules", ".git", ".venv"}}

\* current_depth = root.replace(root_dir, '').count(os.sep)
current_depth(root) == str_count(str_remove(root, root_dir), os_sep)

\* sorted() of a set of strings: code points of the characters in use
CodePoints == "./_abcdefghijklmnopqrstuvwxyz"
ord(c) == CHOOSE i \in 1..Len(CodePoints) : SubSeq(CodePoints, i, i) = c

RECURSIVE str_less(_, _)
str_less(a, b) ==
    IF Len(b) = 0 THEN FALSE
    ELSE IF Len(a) = 0 THEN TRUE
    ELSE IF SubSeq(a, 1, 1) = SubSeq(b, 1, 1)
         THEN str_less(SubSeq(a, 2, Len(a)), SubSeq(b, 2, Len(b)))
         ELSE ord(SubSeq(a, 1, 1)) < ord(SubSeq(b, 1, 1))

RECURSIVE sorted(_)
sorted(strs) ==
    IF strs = {} THEN <<>>
    ELSE LET least == CHOOSE x \in strs : \A y \in strs \ {x} : str_less(x, y)
         IN <<least>> \o sorted(strs \ {least})

(***************************************************************************)
(* Part H actions.  os.walk yields the directories depth first in the      *)
(* order of the directory listing, which is arbitrary: any pending         *)
(* directory may come next.                                                *)
(***************************************************************************)
CandidateFiles ==
    { <<"a.py">>, <<"n.txt">>, <<"src", "b.py">>, <<"src", "__pycache__", "c.py">>,
      <<".venv", "d.py">>, <<".git", "e.py">>, <<"node_modules", "f.py">>,
      <<"src", "p", ".x", "g.py">>, <<"p", "h.py">> }
Patterns == {"*.py", "*"}
MaxDepths == {<<>>} \cup {<<n>> : n \in 0..MaxDepth}

\* the call, up to the first os.walk step
ListProjectFilesRecursive(files, pat, depth) ==
    /\ files_pc = "start"
    /\ files_pc' = "walking"
    /\ tree' = files
    /\ pattern' = pat
    /\ max_depth' = depth
    /\ pending' = {<<>>}
    /\ matches' = {}
    /\ UNCHANGED files_result
    /\ UNCHANGED not_files_vars

\* one iteration of "for root, dirs, files in os.walk(root_dir)"
WalkStep(names) ==
    LET root == os_path_join(root_dir, names)
        dirs == kept_dirs(walk_dirs(names))
        found == {os_path_relpath(os_path_join(root, <<filename>>), root_dir) :
                     filename \in {f \in walk_files(names) : fnmatch(f, pattern)}}
    IN /\ files_pc = "walking"
       /\ names \in pending
       /\ IF max_depth # <<>> /\ current_depth(root) >= max_depth[1]
          THEN /\ pending' = pending \ {names}
               /\ UNCHANGED matches
          ELSE /\ pending' = (pending \ {names}) \cup {Append(names, d) : d \in dirs}
               /\ matches' = matches \cup found
       /\ UNCHANGED <<files_pc, tree, pattern, max_depth, files_result>>
       /\ UNCHANGED not_files_vars

\* return sorted(matches)
ReturnMatches ==
    /\ files_pc = "walking"
    /\ pending = {}
    /\ files_pc' = "returned"
    /\ files_result' = sorted(matches)
    /\ UNCHANGED <<tree, pattern, max_depth, pending, matches>>
    /\ UNCHANGED not_files_vars

FilesInit == AgentIdle /\ LLMIdle /\ CLIIdle /\ RiskIdle /\ AuditIdle
        /\ PlatformIdle

FilesNext ==
    \/ \E files \in SUBSET CandidateFiles, pat \in Patterns, depth \in MaxDepths :
          ListProjectFilesRecursive(files, pat, depth)
    \/ \E names \in pending : WalkStep(names)
    \/ ReturnMatches

FilesSpec == FilesInit /\ [][FilesNext]_vars

(***************************************************************************)
(* Properties of Part H.                                                   *)
(***************************************************************************)
\* the file lies under a directory that the listing must leave out
UnderExcluded(file) ==
    \E i \in 1..(Len(file) - 1) :
        \/ file[i] \in {".venv", "__pycache__", ".git", "node_modules"}
        \/ startswith(file[i], ".")

RelativePath(file) == os_path_relpath(os_path_join(root_dir, file), root_dir)

\* C23: whatever the tree and max_depth, the returned list holds no path
\* under a directory named .venv, __pycache__, .git or node_modules or
\* under a dot-prefixed directory.
C23_NoExcludedPathListed ==
    files_pc = "returned" =>
        \A i \in 1..Len(files_result) :
            \A file \in tree :
                UnderExcluded(file) => files_result[i] # RelativePath(file)

\* a listing has returned files although the tree holds files under an
\* excluded directory at the top and under nested ones
C23_Witness ==
    /\ files_pc = "returned"
    /\ Len(files_result) > 0
    /\ \E file \in tree : UnderExcluded(file) /\ Len(file) = 2
    /\ <<"src", "__pycache__", "c.py">> \in tree
    /\ <<"src", "p", ".x", "g.py">> \in tree
    /\ <<"src", "b.py">> \in tree
    /\ RelativePath(<<"src", "b.py">>) \in Range(files_result)

(***************************************************************************)
(* Part I: get_database (demo_trading_platform/main.py).  Its callers are  *)
(* startup_event, place_order and get_portfolio, all "async def": they run *)
(* as coroutines on the one event loop of the process, and a coroutine     *)
(* keeps the loop until it awaits or ends.  place_order awaits             *)
(* request.json() before it calls get_database; neither get_database nor   *)
(* the rest of the handlers awaits.  The startup event need not have run   *)
(* before a request is handled (a test client without lifespan).           *)
(* get_database itself is split into its test and its assignment.          *)
(***************************************************************************)
NoTask == 0 - 1
Handlers == {"place_order", "get_portfolio"}

\* handlers run in worker threads: any started task may take a step
Scheduled_in_threads(t) == TRUE

\* the event loop runs task t: t holds the loop, or the loop is free and t
\* is ready to start or to resume from its await
Scheduled(t) ==
    \/ running = t
    \/ running = NoTask /\ task_pc[t] \in {"idle", "await_json"}

\* a handler is entered; place_order runs up to "await request.json()" and
\* gives up the loop there
StartTask(t, h) ==
    /\ task_pc[t] = "idle"
    /\ Scheduled(t)
    /\ h = "startup_event" <=> t = 0
    /\ handler' = [handler EXCEPT ![t] = h]
    /\ task_pc' = [task_pc EXCEPT ![t] =
                      IF h = "place_order" THEN "await_json" ELSE "get_database"]
    /\ running' = IF h = "place_order" THEN NoTask ELSE t
    /\ UNCHANGED <<DATABASE_CONNECTION, connections_opened, task_db>>
    /\ UNCHANGED not_db_vars

\* place_order resumes with the request body
ResumeTask(t) ==
    /\ task_pc[t] = "await_json"
    /\ Scheduled(t)
    /\ task_pc' = [task_pc EXCEPT ![t] = "get_database"]
    /\ running' = t
    /\ UNCHANGED <<DATABASE_CONNECTION, connections_opened, handler, task_db>>
    /\ UNCHANGED not_db_vars

\* get_database: "if DATABASE_CONNECTION is None", and the return when it
\* is not
GetDatabaseTest(t) ==
    /\ task_pc[t] = "get_database"
    /\ Scheduled(t)
    /\ IF DATABASE_CONNECTION = 0
       THEN /\ task_pc' = [task_pc EXCEPT ![t] = "connect"]
            /\ UNCHANGED task_db
       ELSE /\ task_pc' = [task_pc EXCEPT ![t] = "have_db"]
            /\ task_db' = [task_db EXCEPT ![t] = DATABASE_CONNECTION]
    /\ UNCHANGED <<DATABASE_CONNECTION, connections_opened, running, handler>>
    /\ UNCHANGED not_db_vars

\* get_database: DATABASE_CONNECTION = sqlite3.connect(...) and the return;
\* sqlite3.connect may raise instead, which ends the handler
GetDatabaseConnect(t, opens) ==
    /\ task_pc[t] = "connect"
    /\ Scheduled(t)
    /\ IF opens
       THEN /\ connections_opened' = connections_opened + 1
            /\ DATABASE_CONNECTION' = connections_opened + 1
            /\ task_db' = [task_db EXCEPT ![t] = connections_opened + 1]
            /\ task_pc' = [task_pc EXCEPT ![t] = "have_db"]
            /\ UNCHANGED running
       ELSE /\ task_pc' = [task_pc EXCEPT ![t] = "raised"]
            /\ running' = NoTask
            /\ UNCHANGED <<DATABASE_CONNECTION, connections_opened, task_db>>
    /\ UNCHANGED handler
    /\ UNCHANGED not_db_vars

\* the rest of the handler: cursor, execute, commit, return
FinishTask(t) ==
    /\ task_pc[t] = "have_db"
    /\ Scheduled(t)
    /\ task_pc' = [task_pc EXCEPT ![t] = "done"]
    /\ running' = NoTask
    /\ UNCHANGED <<DATABASE_CONNECTION, connections_opened, handler, task_db>>
    /\ UNCHANGED not_db_vars

DbInit == AgentIdle /\ LLMIdle /\ CLIIdle /\ RiskIdle /\ AuditIdle
        /\ PlatformIdle

DbNext ==
    \/ \E t \in Tasks, h \in Handlers \cup {"startup_event"} : StartTask(t, h)
    \/ \E t \in Tasks : ResumeTask(t)
    \/ \E t \in Tasks : GetDatabaseTest(t)
    \/ \E t \in Tasks, opens \in BOOLEAN : GetDatabaseConnect(t, opens)
    \/ \E t \in Tasks : FinishTask(t)

DbSpec == DbInit /\ [][DbNext]_vars

(***************************************************************************)
(* Properties of Part I.                                                   *)
(***************************************************************************)
\* C24: whatever the number of requests and their interleaving, at most
\* one SQLite connection is opened and every get_database call returns
\* that connection.
C24_OneSharedConnection ==
    /\ connections_opened <= 1
    /\ \A t \in Tasks : task_db[t] # 0 => task_db[t] = DATABASE_CONNECTION
    /\ \A t, u \in Tasks : (task_db[t] # 0 /\ task_db[u] # 0) => task_db[t] = task_db[u]

\* a place_order request was suspended in its await while another handler
\* opened the connection, and got that connection afterwards
C24_Witness ==
    \E t, u \in Tasks :
        /\ t # u
        /\ handler[t] = "place_order" /\ task_pc[t] = "done"
        /\ task_pc[u] = "done" /\ task_db[u] # 0
        /\ task_db[t] = task_db[u]
        /\ \E v \in Tasks : task_pc[v] = "raised"

(***************************************************************************)
(* Part J: real-time streams (demo_trading_platform/data/market_data.py).  *)
(* start_real_time_data_stream starts a thread that runs ws.run_forever,   *)
(* and that thread calls _process_streaming_data for every message of its  *)
(* socket.  The threads share the manager and take no lock, so each        *)
(* "self.x = np.concatenate([self.x, new])" is a read of self.x followed   *)
(* by a store, and another thread may run in between.  A decoded message   *)
(* is [price, volume], each <<>> when the key is absent.                   *)
(***************************************************************************)
StreamMessages ==
    { "{\"price\": 101, \"volume\": 7}", "{\"price\": 102}", "heartbeat" }

\* json.loads on the messages of the model; ok = FALSE when it raises
stream_json_loads(message) ==
    CASE message = "{\"price\": 101, \"volume\": 7}" ->
             [ok |-> TRUE, data |-> [price |-> <<101>>, volume |-> <<7>>]]
      [] message = "{\"price\": 102}" ->
             [ok |-> TRUE, data |-> [price |-> <<102>>, volume |-> <<>>]]
      [] OTHER -> [ok |-> FALSE, data |-> NoData]

\* np.concatenate([array, np.array([value])])
np_concatenate(array, value) == Append(array, value)

\* messages handed to on_message so far
TicksDelivered ==
    ticks_processed + Cardinality({c \in StreamClients : stream_pc[c] # "idle"})

StartRealTimeDataStream(client_id, symbols) ==
    /\ client_id \notin DOMAIN data_subscriptions
    /\ data_subscriptions' = With(data_subscriptions, client_id, symbols)
    /\ UNCHANGED <<price_history, volume_data, stream_pc, stream_data, stream_read,
                   ticks_processed>>
    /\ UNCHANGED not_stream_vars

\* on_message up to the test for "price" and "volume": a message that does
\* not parse, or lacks a key, ends the call
OnMessage(client_id, message) ==
    LET parsed == stream_json_loads(message)
        both == parsed.ok /\ parsed.data.price # <<>> /\ parsed.data.volume # <<>>
    IN /\ client_id \in DOMAIN data_subscriptions
       /\ stream_pc[client_id] = "idle"
       /\ both => TicksDelivered < MaxTicks
       /\ IF both
          THEN /\ stream_pc' = [stream_pc EXCEPT ![client_id] = "read_price"]
               /\ stream_data' = [stream_data EXCEPT ![client_id] = parsed.data]
          ELSE UNCHANGED <<stream_pc, stream_data>>
       /\ UNCHANGED <<price_history, volume_data, data_subscriptions, stream_read,
                      ticks_processed>>
       /\ UNCHANGED not_stream_vars

\* the thread evaluates self.price_history for np.concatenate
ReadPriceHistory(client_id) ==
    /\ stream_pc[client_id] = "read_price"
    /\ stream_read' = [stream_read EXCEPT ![client_id] = price_history]
    /\ stream_pc' = [stream_pc EXCEPT ![client_id] = "store_price"]
    /\ UNCHANGED <<price_history, volume_data, data_subscriptions, stream_data,
                   ticks_processed>>
    /\ UNCHANGED not_stream_vars

\* self.price_history = <the concatenation>
StorePriceHistory(client_id) ==
    /\ stream_pc[client_id] = "store_price"
    /\ price_history' = np_concatenate(stream_read[client_id],
                                       stream_data[client_id].price[1])
    /\ stream_pc' = [stream_pc EXCEPT ![client_id] = "read_volume"]
    /\ UNCHANGED <<volume_data, data_subscriptions, stream_data, stream_read,
                   ticks_processed>>
    /\ UNCHANGED not_stream_vars

\* the thread evaluates self.volume_data for np.concatenate
ReadVolumeData(client_id) ==
    /\ stream_pc[client_id] = "read_volume"
    /\ stream_read' = [stream_read EXCEPT ![client_id] = volume_data]
    /\ stream_pc' = [stream_pc EXCEPT ![client_id] = "store_volume"]
    /\ UNCHANGED <<price_history, volume_data, data_subscriptions, stream_data,
                   ticks_processed>>
    /\ UNCHANGED not_stream_vars

\* self.volume_data = <the concatenation>, and the call returns
StoreVolumeData(client_id) ==
    /\ stream_pc[client_id] = "store_volume"
    /\ volume_data' = np_concatenate(stream_read[client_id],
                                     stream_data[client_id].volume[1])
    /\ stream_pc' = [stream_pc EXCEPT ![client_id] = "idle"]
    /\ stream_data' = [stream_data EXCEPT ![client_id] = NoData]
    /\ stream_read' = [stream_read EXCEPT ![client_id] = <<>>]
    /\ ticks_processed' = ticks_processed + 1
    /\ UNCHANGED <<price_history, data_subscriptions>>
    /\ UNCHANGED not_stream_vars

StreamInit == AgentIdle /\ LLMIdle /\ CLIIdle /\ RiskIdle /\ AuditIdle
        /\ PlatformIdle

StreamNext ==
    \/ \E c \in StreamClients : StartRealTimeDataStream(c, <<"AAPL">>)
    \/ \E c \in StreamClients, message \in StreamMessages : OnMessage(c, message)
    \/ \E c \in StreamClients : ReadPriceHistory(c)
    \/ \E c \in StreamClients : StorePriceHistory(c)
    \/ \E c \in StreamClients : ReadVolumeData(c)
    \/ \E c \in StreamClients : StoreVolumeData(c)

StreamSpec == StreamInit /\ [][StreamNext]_vars

(***************************************************************************)
(* Properties of Part J.                                                   *)
(***************************************************************************)
\* C29: once the stream threads have processed n ticks that carry a price
\* and a volume, price_history and volume_data hold exactly n entries each.
C29_NoTickLost ==
    (\A c \in StreamClients : stream_pc[c] = "idle") =>
        /\ Len(price_history) = ticks_processed
        /\ Len(volume_data) = ticks_processed

====
